---- MODULE Spec2Model ----
(***************************************************************************)
(* A model of promptlab's scoring engine (analyzer.py, patterns.py).       *)
(*                                                                         *)
(* Prompts are strings.  Scores are integers in tenths of a point (a score *)
(* of 7.5 is 75); intermediate sums that carry a 0.75 term are kept in     *)
(* hundredths.  Regular expressions are translated to matchers over the    *)
(* characters of the string; keyword banks are searched by substring, as   *)
(* Python's `in` does.                                                     *)
(***************************************************************************)
EXTENDS Integers, Sequences, FiniteSets, TLC

(***************************************************************************)
(* Bounds of the model.                                                    *)
(***************************************************************************)
\* A prompt is the concatenation of at most MaxPieces pieces of Pieces.
MaxPieces == 3
\* analyze is called at most MaxCalls times in one behaviour.
MaxCalls == 3
\* The number of pieces in the prompt of a caller that calls repeatedly.
RepeatPieces == 1
\* Labels are read for the scores 0.0 to MaxLabelScore tenths.
MaxLabelScore == 100
\* A remote response is the concatenation of at most MaxParts pieces.
MaxParts == 3
\* The prompts whose results are rendered as JSON have at most JsonPieces
\* pieces.
JsonPieces == 2
\* analyze is called from MaxThreads threads at the same time.
MaxThreads == 2
\* The word counts the length score is computed for: beyond 1300, where the
\* decay of the score for long prompts reaches its floor.
MaxWords == 1320
\* The list items at the end of a prompt, each a line with one number.
MaxItems == 4

(***************************************************************************)
(* Characters and strings.                                                 *)
(***************************************************************************)
Char(s, i) == SubSeq(s, i, i)

UpperLetters == "ABCDEFGHIJKLMNOPQRSTUVWXYZ"
LowerLetters == "abcdefghijklmnopqrstuvwxyz"
Digits == "0123456789"

CharsOf(s) == {Char(s, i) : i \in 1..Len(s)}

UpperSet == CharsOf(UpperLetters)
DigitSet == CharsOf(Digits)
\* \w of Python's re: letters, digits and the underscore.
WordSet == UpperSet \cup CharsOf(LowerLetters) \cup DigitSet \cup {"_"}
\* \s of Python's re, and the characters str.strip and str.split treat as blank.
SpaceSet == {" ", "\n", "\t", "\r"}

LowerMap == [c \in UpperSet |->
               Char(LowerLetters, CHOOSE i \in 1..26 : Char(UpperLetters, i) = c)]

LowerChar(c) == IF c \in UpperSet THEN LowerMap[c] ELSE c

\* str.lower(), character by character (halving the string keeps the
\* recursion shallow).
RECURSIVE Lower(_)
Lower(s) ==
    IF Len(s) = 0 THEN ""
    ELSE IF Len(s) = 1 THEN LowerChar(s)
    ELSE LET h == Len(s) \div 2
         IN  Lower(SubSeq(s, 1, h)) \o Lower(SubSeq(s, h + 1, Len(s)))

IsSpaceAt(s, i) == i >= 1 /\ i <= Len(s) /\ Char(s, i) \in SpaceSet
IsWordAt(s, i) == i >= 1 /\ i <= Len(s) /\ Char(s, i) \in WordSet
IsDigitAt(s, i) == i >= 1 /\ i <= Len(s) /\ Char(s, i) \in DigitSet

\* \b between the characters i-1 and i (i = 1: before the string, i = Len+1: after).
Boundary(s, i) == IsWordAt(s, i - 1) # IsWordAt(s, i)

\* The literal k sits at position i of s.
At(s, i, k) == i >= 1 /\ i + Len(k) - 1 <= Len(s) /\ SubSeq(s, i, i + Len(k) - 1) = k

\* `k in s`
Contains(s, k) == \E i \in 1..(Len(s) - Len(k) + 1) : At(s, i, k)

\* The first position at or after i that holds no blank (Len+1 when there is none).
RECURSIVE SkipSpaces(_, _)
SkipSpaces(s, i) == IF IsSpaceAt(s, i) THEN SkipSpaces(s, i + 1) ELSE i

\* The last position at or before i that holds no blank (0 when there is none).
RECURSIVE SkipSpacesBack(_, _)
SkipSpacesBack(s, i) == IF IsSpaceAt(s, i) THEN SkipSpacesBack(s, i - 1) ELSE i

\* Faulty variant of Strip: the string is left as it is.
StripNothing(s) == s

\* str.strip()
Strip(s) == SubSeq(s, SkipSpaces(s, 1), SkipSpacesBack(s, Len(s)))

\* str.count(c) for a single character c
CountChar(s, c) == Cardinality({i \in 1..Len(s) : Char(s, i) = c})

\* The least element of a non-empty set of numbers.
Least(S) == CHOOSE x \in S : \A y \in S : x <= y

(***************************************************************************)
(* Regular expressions.  The patterns of the program are built from words  *)
(* separated by \s+, with \b or ^ in front and \b behind; re.I compares    *)
(* the lowered characters of the text with the (lowercase) pattern.        *)
(* A matcher returns the position after the match, or 0 for no match.      *)
(***************************************************************************)
\* The word w, compared case-insensitively, at position i.
WordCI(s, i, w) ==
    IF /\ i >= 1
       /\ i + Len(w) - 1 <= Len(s)
       /\ LowerChar(Char(s, i)) = Char(w, 1)
       /\ Lower(SubSeq(s, i, i + Len(w) - 1)) = w
    THEN i + Len(w) ELSE 0

\* \s+ at position i.
Spaces1(s, i) == IF IsSpaceAt(s, i) THEN SkipSpaces(s, i) ELSE 0

\* The words ws[k..], separated by \s+, at position i.
RECURSIVE WordsCI(_, _, _, _)
WordsCI(s, i, ws, k) ==
    LET e == WordCI(s, i, ws[k])
    IN  IF e = 0 THEN 0
        ELSE IF k = Len(ws) THEN e
        ELSE LET n == Spaces1(s, e)
             IN  IF n = 0 THEN 0 ELSE WordsCI(s, n, ws, k + 1)

\* One alternative of a pattern at position i: w1 \s+ w2 ... \b
PhraseAt(s, i, ws) ==
    LET e == WordsCI(s, i, ws, 1)
    IN  IF e > 0 /\ Boundary(s, e) THEN e ELSE 0

\* The alternatives from the k-th on, tried in order at position i.
RECURSIVE AltsAt(_, _, _, _)
AltsAt(s, i, alts, k) ==
    IF k > Len(alts) THEN 0
    ELSE LET e == PhraseAt(s, i, alts[k])
         IN  IF e > 0 THEN e ELSE AltsAt(s, i, alts, k + 1)

\* The pattern rx at position i: ^ or \b, then the first alternative that fits.
RxAt(s, i, rx) ==
    IF (IF rx.anchored THEN i = 1 ELSE Boundary(s, i))
    THEN AltsAt(s, i, rx.alts, 1)
    ELSE 0

\* pattern.search(s): <<start, end>> of the leftmost match, <<0, 0>> when
\* there is none.
Search(s, rx) ==
    LET starts == {i \in 1..Len(s) : RxAt(s, i, rx) > 0}
    IN  IF starts = {} THEN <<0, 0>>
        ELSE <<Least(starts), RxAt(s, Least(starts), rx)>>

Matches(s, rx) == Search(s, rx)[1] > 0

\* match.group(): the matched substring, in the text's own case.
MatchGroup(s, rx) == LET m == Search(s, rx) IN SubSeq(s, m[1], m[2] - 1)

(***************************************************************************)
(* The pattern catalog and the keyword banks (patterns.py).                *)
(***************************************************************************)
Rx(anchored, alts) == [anchored |-> anchored, alts |-> alts]

MISSING_ROLE ==
    [id |-> "missing_role", name |-> "Missing Role / Persona",
     category |-> "structure", severity |-> "medium",
     description |-> "The prompt does not assign a role or persona to the AI.",
     suggestion |-> "Start with a role assignment like 'You are an experienced technical writer...' to ground the AI's perspective and expertise level.",
     positive_signals |-> <<>>, keyword_signals |-> <<>>]

MISSING_OUTPUT_FORMAT ==
    [id |-> "missing_output_format", name |-> "No Output Format Specified",
     category |-> "structure", severity |-> "medium",
     description |-> "The prompt does not specify what format the output should take.",
     suggestion |-> "Specify the desired output format, e.g. 'Return the result as a numbered list', 'Format as JSON', or 'Write a 3-paragraph essay'.",
     positive_signals |-> <<>>, keyword_signals |-> <<>>]

MISSING_CONTEXT ==
    [id |-> "missing_context", name |-> "Missing Context / Background",
     category |-> "structure", severity |-> "high",
     description |-> "The prompt lacks background information or context for the task.",
     suggestion |-> "Add context about the audience, purpose, or background situation. For example: 'I'm writing a blog for beginner Python developers...'",
     positive_signals |-> <<>>, keyword_signals |-> <<>>]

VAGUE_LANGUAGE ==
    [id |-> "vague_language", name |-> "Vague / Hand-wavy Language",
     category |-> "clarity", severity |-> "high",
     description |-> "The prompt uses vague qualifiers instead of concrete instructions.",
     suggestion |-> "Replace vague words with specific criteria. Instead of 'make it good', say 'ensure the tone is professional and each paragraph has a topic sentence'.",
     positive_signals |-> <<
         Rx(FALSE, << <<"make", "it", "good">>, <<"make", "it", "better">>,
                      <<"make", "it", "nice">>, <<"make", "it", "great">>,
                      <<"make", "it", "awesome">>, <<"make", "it", "perfect">> >>),
         Rx(FALSE, << <<"improve", "this">> >>),
         Rx(FALSE, << <<"do", "something">>, <<"do", "a", "good", "job">>,
                      <<"do", "your", "best">> >>),
         Rx(FALSE, << <<"something", "about">>, <<"something", "on">>,
                      <<"something", "related">> >>),
         Rx(FALSE, << <<"whatever", "you", "think">> >>),
         Rx(FALSE, << <<"just", "make", "it", "work">> >>) >>,
     keyword_signals |-> <<"make it good", "make it better", "make it nice",
                           "do something", "whatever you think", "you decide",
                           "be creative", "do your best", "just make it work">>]

AMBIGUOUS_PRONOUNS ==
    [id |-> "ambiguous_pronouns", name |-> "Ambiguous Pronoun References",
     category |-> "clarity", severity |-> "low",
     description |-> "The prompt uses pronouns ('it', 'this', 'that') without clear referents, which can confuse the model.",
     suggestion |-> "Replace ambiguous pronouns with explicit nouns. Instead of 'Improve it and make it shorter', say 'Improve the product description and reduce it to under 50 words'.",
     positive_signals |-> <<
         Rx(TRUE, << <<"fix", "it">>, <<"fix", "this">>, <<"fix", "that">>,
                     <<"improve", "it">>, <<"improve", "this">>, <<"improve", "that">>,
                     <<"change", "it">>, <<"change", "this">>, <<"change", "that">>,
                     <<"update", "it">>, <<"update", "this">>, <<"update", "that">>,
                     <<"rewrite", "it">>, <<"rewrite", "this">>, <<"rewrite", "that">>,
                     <<"edit", "it">>, <<"edit", "this">>, <<"edit", "that">>,
                     <<"modify", "it">>, <<"modify", "this">>, <<"modify", "that">> >>) >>,
     keyword_signals |-> <<>>]

NO_CONSTRAINTS ==
    [id |-> "no_constraints", name |-> "No Constraints or Boundaries",
     category |-> "specificity", severity |-> "medium",
     description |-> "The prompt sets no limits on length, scope, tone, or format.",
     suggestion |-> "Add constraints like word count, tone, audience level, or scope. Example: 'Keep it under 200 words, written for a non-technical audience.'",
     positive_signals |-> <<>>, keyword_signals |-> <<>>]

NO_EXAMPLES ==
    [id |-> "no_examples", name |-> "No Examples Provided",
     category |-> "specificity", severity |-> "low",
     description |-> "The prompt does not include examples of desired input/output, which helps the model understand expectations.",
     suggestion |-> "Add 1-2 examples of what good output looks like. Few-shot examples dramatically improve output quality for structured tasks.",
     positive_signals |-> <<>>, keyword_signals |-> <<>>]

MULTIPLE_REQUESTS ==
    [id |-> "multiple_requests", name |-> "Multiple Unrelated Requests",
     category |-> "scope", severity |-> "high",
     description |-> "The prompt appears to ask for several unrelated things at once, which dilutes focus and quality.",
     suggestion |-> "Break this into separate prompts, one per task. If tasks are related, use numbered steps to impose order.",
     positive_signals |-> <<
         Rx(FALSE, << <<"also">>, <<"additionally">>, <<"and", "also">>,
                      <<"on", "top", "of", "that">>, <<"by", "the", "way">>,
                      <<"oh", "and">>, <<"plus", "also">>, <<"another", "thing">> >>) >>,
     keyword_signals |-> <<>>]

ROLE_KEYWORDS ==
    <<"you are", "act as", "acting as", "your role", "as a", "as an",
      "pretend you", "imagine you", "take the role", "persona", "you're a",
      "you're an", "play the role", "behave as", "respond as">>

OUTPUT_FORMAT_KEYWORDS ==
    <<"format", "output as", "return as", "respond with", "respond in",
      "in json", "as json", "as a list", "as a table", "numbered list",
      "bullet points", "bulleted list", "markdown", "csv", "xml", "yaml",
      "in the form of", "paragraph", "paragraphs", "essay", "report",
      "template", "code block", "formatted as">>

CONTEXT_SIGNALS ==
    <<"background", "context", "for context", "the situation is",
      "the goal is", "the purpose is", "i'm working on", "i am working on",
      "the project is", "this is for", "the audience is", "the target",
      "we need", "my team", "our company", "my company", "the client",
      "the customer", "the user", "use case">>

CONSTRAINT_KEYWORDS ==
    <<"must", "should", "no more than", "no less than", "at most", "at least",
      "limit", "maximum", "minimum", "between", "within", "under",
      "constraint", "requirement", "do not", "don't", "avoid", "never",
      "always", "keep it", "make sure", "ensure", "words", "sentences",
      "tone", "formal", "informal", "casual", "professional", "academic",
      "concise">>

EXAMPLE_KEYWORDS ==
    <<"for example", "example:", "example of", "e.g.", "such as",
      "like this:", "here's an example", "here is an example", "sample",
      "for instance", "input:", "output:", "expected:",
      "here's what i mean", "here is what i mean">>

ALL_PATTERNS ==
    <<MISSING_ROLE, MISSING_OUTPUT_FORMAT, MISSING_CONTEXT, VAGUE_LANGUAGE,
      AMBIGUOUS_PRONOUNS, NO_CONSTRAINTS, NO_EXAMPLES, MULTIPLE_REQUESTS>>

(***************************************************************************)
(* Formatting helpers.                                                     *)
(***************************************************************************)
\* str(n) for a natural number n.
RECURSIVE ToStr(_)
ToStr(n) == IF n < 10 THEN Char(Digits, n + 1)
            ELSE ToStr(n \div 10) \o Char(Digits, (n % 10) + 1)

\* sep.join(parts)
RECURSIVE Join(_, _)
Join(parts, sep) ==
    IF parts = <<>> THEN ""
    ELSE IF Len(parts) = 1 THEN parts[1]
    ELSE parts[1] \o sep \o Join(Tail(parts), sep)

RECURSIVE SkipChars(_, _, _)
SkipChars(s, cs, i) ==
    IF i <= Len(s) /\ Char(s, i) \in cs THEN SkipChars(s, cs, i + 1) ELSE i

RECURSIVE SkipCharsBack(_, _, _)
SkipCharsBack(s, cs, i) ==
    IF i >= 1 /\ Char(s, i) \in cs THEN SkipCharsBack(s, cs, i - 1) ELSE i

\* Faulty variant of StripChars: nothing is stripped.
StripNoChars(s, cs) == s

\* str.strip(chars)
StripChars(s, cs) == SubSeq(s, SkipChars(s, cs, 1), SkipCharsBack(s, cs, Len(s)))

Max(a, b) == IF a >= b THEN a ELSE b
Min(a, b) == IF a <= b THEN a ELSE b

\* Faulty variant of RoundHundredths: a tie goes up.
RoundHundredthsUp(h) == (h + 5) \div 10

\* round(x, 1) of a score x held exactly in hundredths, as tenths.  The scores
\* rounded this way are multiples of 0.25, which a double holds exactly, so a
\* tie (x.x5) goes to the even tenth.
RoundHundredths(h) ==
    LET q == h \div 10
        r == h % 10
    IN  IF r > 5 \/ (r = 5 /\ q % 2 = 1) THEN q + 1 ELSE q

(***************************************************************************)
(* Text metrics (analyzer.py, "Helper utilities").                         *)
(***************************************************************************)
\* len(text.split()): the runs of non-blank characters, counted by their
\* first characters.
_count_words(text) ==
    Cardinality({i \in 1..Len(text) :
        ~IsSpaceAt(text, i) /\ (i = 1 \/ IsSpaceAt(text, i - 1))})

IsEndPunctAt(s, i) == i >= 1 /\ i <= Len(s) /\ Char(s, i) \in {".", "!", "?"}

RECURSIVE SkipEndPunct(_, _)
SkipEndPunct(s, i) == IF IsEndPunctAt(s, i) THEN SkipEndPunct(s, i + 1) ELSE i

\* A match of [.!?]+(?:\s|$) starts at i: a whole run of end punctuation
\* with a blank or the end of the string behind it.
SeparatorAt(s, i) ==
    /\ IsEndPunctAt(s, i)
    /\ ~IsEndPunctAt(s, i - 1)
    /\ (SkipEndPunct(s, i) > Len(s) \/ IsSpaceAt(s, SkipEndPunct(s, i)))

\* The part of the split that ends at position i holds a non-blank character:
\* the last non-blank character at or before i is not the end of a separator.
PartEndsNonBlank(s, i) ==
    LET k == SkipSpacesBack(s, i)
    IN  k >= 1 /\ ~(IsEndPunctAt(s, k) /\ (k = Len(s) \/ IsSpaceAt(s, k + 1)))

\* len([p for p in re.split(r'[.!?]+(?:\s|$)', s) if p.strip()]): the parts
\* before each separator and the part behind the last one.
SentenceParts(s) ==
    Cardinality({i \in 1..Len(s) : SeparatorAt(s, i) /\ PartEndsNonBlank(s, i - 1)})
    + (IF PartEndsNonBlank(s, Len(s)) THEN 1 ELSE 0)

_count_sentences(text) == Max(1, SentenceParts(Strip(text)))

\* Faulty variant of _has_any_keyword: only the first keyword is looked for.
HasFirstKeyword(text_lower, keywords) ==
    keywords # <<>> /\ Contains(text_lower, keywords[1])

\* any(kw in text_lower for kw in keywords)
_has_any_keyword(text_lower, keywords) ==
    \E k \in 1..Len(keywords) : Contains(text_lower, keywords[k])

\* sum(1 for kw in keywords if kw in text_lower)
_count_keyword_hits(text_lower, keywords) ==
    Cardinality({k \in 1..Len(keywords) : Contains(text_lower, keywords[k])})

RECURSIVE SkipDigits(_, _)
SkipDigits(s, i) == IF IsDigitAt(s, i) THEN SkipDigits(s, i + 1) ELSE i

\* len(re.findall(r'\b\d+\b', text)): a match starts at a digit that follows no
\* word character, takes the whole run of digits, and needs \b after it.
CountNumbers(text) ==
    Cardinality({i \in 1..Len(text) :
        /\ IsDigitAt(text, i)
        /\ ~IsWordAt(text, i - 1)
        /\ ~IsWordAt(text, SkipDigits(text, i))})

\* The verbs of verb_pattern.
TASK_VERBS ==
    <<"write", "create", "generate", "build", "make", "list", "explain",
      "describe", "summarize", "translate", "convert", "fix", "improve",
      "update", "edit", "rewrite", "help", "tell", "give", "design",
      "develop", "analyze", "compare", "review">>

\* The positions after `w\s+` for the positions of P where the word w stands.
AfterWord(s, P, w) ==
    {Spaces1(s, WordCI(s, p, w)) : p \in {q \in P : WordCI(s, q, w) > 0}} \ {0}

\* The positions after (?:(?:and\s+)?(?:also\s+|can\s+you\s+(?:also\s+)?)?)? at p.
AfterTransition(s, p) ==
    LET P1 == {p} \cup AfterWord(s, {p}, "and")
        Q  == AfterWord(s, AfterWord(s, P1, "can"), "you")
    IN  P1 \cup AfterWord(s, P1, "also") \cup Q \cup AfterWord(s, Q, "also")

\* The positions after (verb)\b for the positions of P where a verb stands.
AfterVerb(s, P, verbs) ==
    {e \in {WordCI(s, p, verbs[k]) : p \in P, k \in 1..Len(verbs)} :
        e > 0 /\ Boundary(s, e)}

\* The positions after (?:^|[.!?]\s+|\n\s*) at position i.
AfterClauseStart(s, i) ==
    (IF i = 1 THEN {1} ELSE {})
    \cup (IF IsEndPunctAt(s, i) /\ IsSpaceAt(s, i + 1) THEN {SkipSpaces(s, i + 1)} ELSE {})
    \cup (IF i <= Len(s) /\ Char(s, i) = "\n" THEN {SkipSpaces(s, i + 1)} ELSE {})

\* The end of the task_starters match that starts at position i, 0 for none.
\* Every way to match ends behind the same verb, the first word that is not a
\* transition word.
TaskStarterAt(s, i) ==
    LET ends == UNION {AfterVerb(s, AfterTransition(s, p), TASK_VERBS) :
                          p \in AfterClauseStart(s, i)}
    IN  IF ends = {} THEN 0 ELSE CHOOSE e \in ends : \A f \in ends : f <= e

\* len(re.findall(...)) from position i on: the leftmost match at or after i,
\* then the matches behind its end (matches do not overlap).
RECURSIVE CountTaskStartersFrom(_, _, _)
CountTaskStartersFrom(s, starts, i) ==
    LET left == {j \in starts : j >= i}
    IN  IF left = {} THEN 0
        ELSE 1 + CountTaskStartersFrom(s, starts, TaskStarterAt(s, Least(left)))

CountTaskStarters(s) ==
    CountTaskStartersFrom(s, {i \in 1..Len(s) : TaskStarterAt(s, i) > 0}, 1)

\* Faulty variant of _count_distinct_tasks: the question marks are not counted.
CountTaskVerbsOnly(text) == CountTaskStarters(text)

_count_distinct_tasks(text) == CountTaskStarters(text) + CountChar(text, "?")

(***************************************************************************)
(* Result data structures.                                                 *)
(***************************************************************************)
\* DimensionScore(name, score, details); max_score keeps its default, 10.0.
DimensionScore(name, score, details) ==
    [name |-> name, score |-> score, max_score |-> 100, details |-> details]

\* DetectedAntiPattern(pattern, evidence)
DetectedAntiPattern(ap, evidence) == [pattern |-> ap, evidence |-> evidence]

\* AnalysisResult(prompt, dimensions, anti_patterns, suggestions, word_count,
\* sentence_count)
AnalysisResult(p, dims, aps, sugg, wc, sc) ==
    [prompt |-> p, dimensions |-> dims, anti_patterns |-> aps,
     suggestions |-> sugg, word_count |-> wc, sentence_count |-> sc]

\* Faulty variant of Clamp: the score is not clamped.
ClampMissing(score) == score

\* max(1.0, min(10.0, score)), in tenths
Clamp(score) == Max(10, Min(100, score))

(***************************************************************************)
(* Scoring functions.                                                      *)
(***************************************************************************)
\* Faulty variant of VagueHits: the keywords are not counted.
VagueRegexHits(text, text_lower) ==
    Cardinality({k \in 1..Len(VAGUE_LANGUAGE.positive_signals) :
                    Matches(text, VAGUE_LANGUAGE.positive_signals[k])})

\* The vague_hits of _score_clarity: one for each pattern of VAGUE_LANGUAGE
\* that matches the text, one for each of its keywords in the lowered text.
VagueHits(text, text_lower) ==
    Cardinality({k \in 1..Len(VAGUE_LANGUAGE.positive_signals) :
                    Matches(text, VAGUE_LANGUAGE.positive_signals[k])})
    + _count_keyword_hits(text_lower, VAGUE_LANGUAGE.keyword_signals)

_score_clarity(text, text_lower) ==
    LET vague_hits == VagueHits(text, text_lower)
        word_count == _count_words(text)
        numbers    == CountNumbers(text)
        ambiguous  == \E k \in 1..Len(AMBIGUOUS_PRONOUNS.positive_signals) :
                         Matches(text, AMBIGUOUS_PRONOUNS.positive_signals[k])
        score == 70
                 - (IF vague_hits >= 3 THEN 40
                    ELSE IF vague_hits >= 1 THEN 20 * vague_hits ELSE 0)
                 - (IF word_count < 5 THEN 30 ELSE IF word_count < 10 THEN 15 ELSE 0)
                 + (IF numbers >= 2 THEN 10 ELSE 0)
                 - (IF ambiguous THEN 15 ELSE 0)
        details_parts ==
            (IF vague_hits >= 3 THEN <<"Multiple vague phrases detected">>
             ELSE IF vague_hits >= 1
                  THEN <<ToStr(vague_hits) \o " vague phrase(s) detected">>
                  ELSE <<>>)
            \o (IF word_count < 5 THEN <<"Extremely short -- likely too ambiguous">>
                ELSE IF word_count < 10 THEN <<"Very short -- may lack clarity">>
                ELSE <<>>)
            \o (IF numbers >= 2 THEN <<"Contains numeric specifics">> ELSE <<>>)
            \o (IF ambiguous THEN <<"Starts with an ambiguous pronoun reference">>
                ELSE <<>>)
    IN  DimensionScore("Clarity", Clamp(score),
                       IF details_parts # <<>> THEN Join(details_parts, "; ")
                       ELSE "Clear and specific")

\* The verbs of the task_verbs pattern of _score_structure.
STRUCTURE_TASK_VERBS ==
    <<"write", "create", "generate", "build", "make", "list", "explain",
      "describe", "summarize", "translate", "convert", "fix", "improve",
      "update", "edit", "rewrite", "analyze", "compare", "design", "develop",
      "review", "draft", "compose", "produce", "outline", "calculate">>

\* re.findall(r'\b(write|...)\b', text_lower) is not empty.
HasTaskVerb(text_lower) ==
    \E i \in 1..Len(text_lower) :
        /\ Boundary(text_lower, i)
        /\ \E k \in 1..Len(STRUCTURE_TASK_VERBS) :
              /\ At(text_lower, i, STRUCTURE_TASK_VERBS[k])
              /\ Boundary(text_lower, i + Len(STRUCTURE_TASK_VERBS[k]))

_score_structure(text, text_lower) ==
    LET role   == _has_any_keyword(text_lower, ROLE_KEYWORDS)
        ctx    == _has_any_keyword(text_lower, CONTEXT_SIGNALS)
        task   == HasTaskVerb(text_lower)
        format == _has_any_keyword(text_lower, OUTPUT_FORMAT_KEYWORDS)
        score  == (IF role THEN 25 ELSE 0) + (IF ctx THEN 25 ELSE 0)
                  + (IF task THEN 25 ELSE 0) + (IF format THEN 25 ELSE 0)
        present == (IF role THEN <<"role">> ELSE <<>>)
                   \o (IF ctx THEN <<"context">> ELSE <<>>)
                   \o (IF task THEN <<"task">> ELSE <<>>)
                   \o (IF format THEN <<"output format">> ELSE <<>>)
        missing == (IF role THEN <<>> ELSE <<"role/persona">>)
                   \o (IF ctx THEN <<>> ELSE <<"context/background">>)
                   \o (IF task THEN <<>> ELSE <<"clear task verb">>)
                   \o (IF format THEN <<>> ELSE <<"output format">>)
        detail_str ==
            (IF present # <<>> THEN "Has: " \o Join(present, ", ") ELSE "")
            \o (IF missing # <<>> THEN ". Missing: " \o Join(missing, ", ") ELSE "")
    IN  DimensionScore("Structure", Clamp(score), StripChars(detail_str, {".", " "}))

\* The last position at or before i that holds a line break or no blank
\* (0 when there is none).
RECURSIVE SkipInLineBack(_, _)
SkipInLineBack(s, i) ==
    IF IsSpaceAt(s, i) /\ Char(s, i) # "\n" THEN SkipInLineBack(s, i - 1) ELSE i

\* len([l for l in text.strip().split("\n") if l.strip()]): the lines that
\* hold a non-blank character, counted by the first such character.
CountLines(text) ==
    LET s == Strip(text)
    IN  Cardinality({i \in 1..Len(s) :
            /\ ~IsSpaceAt(s, i)
            /\ LET k == SkipInLineBack(s, i - 1)
               IN  k = 0 \/ Char(s, k) = "\n"})

_score_specificity(text, text_lower) ==
    LET constraint_hits == _count_keyword_hits(text_lower, CONSTRAINT_KEYWORDS)
        examples == _has_any_keyword(text_lower, EXAMPLE_KEYWORDS)
        numbers  == CountNumbers(text)
        lines    == CountLines(text)
        \* in hundredths: the numeric bonus of 0.75 is not a whole tenth
        score == 200
                 + (IF constraint_hits >= 5 THEN 300
                    ELSE IF constraint_hits >= 2 THEN 200
                    ELSE IF constraint_hits >= 1 THEN 100 ELSE 0)
                 + (IF examples THEN 250 ELSE 0)
                 + (IF numbers >= 3 THEN 150 ELSE IF numbers >= 1 THEN 75 ELSE 0)
                 + (IF lines >= 5 THEN 100 ELSE 0)
        details_parts ==
            <<(IF constraint_hits >= 5 THEN "Strong constraints present"
               ELSE IF constraint_hits >= 2 THEN "Some constraints present"
               ELSE IF constraint_hits >= 1 THEN "Minimal constraints"
               ELSE "No constraints detected")>>
            \o <<(IF examples THEN "Includes examples" ELSE "No examples provided")>>
            \o (IF numbers >= 3 THEN <<"Multiple numeric details">> ELSE <<>>)
            \o (IF lines >= 5 THEN <<"Well-structured multi-line prompt">> ELSE <<>>)
    IN  DimensionScore("Specificity",
                       RoundHundredths(Max(100, Min(1000, score))),
                       Join(details_parts, "; "))

\* The word counts at which the length score is a tie between two tenths
\* (8.05, 8.15, ...) and the double computed by 8.0 + (word_count - 20) / 140,
\* or by 7.0 - overshoot / 200, lies above the tie, so that round(score, 1)
\* goes up; at the other ties it lies below and round goes down.
LENGTH_TIES_UP ==
    {27, 41, 97, 111, 125, 167, 181, 237, 251, 265,
     510, 550, 570, 610, 670, 710, 750, 770, 810, 870, 910, 950, 970, 1010,
     1070, 1110, 1130, 1150, 1210, 1230}

\* Faulty variant of RoundLength: the score is cut off after the first
\* decimal, not rounded.
RoundLengthDown(num, den, word_count) == num \div den

\* round(num / den, 1) in tenths, for a score num / den in tenths.
RoundLength(num, den, word_count) ==
    LET q == num \div den
        r == num % den
    IN  IF 2 * r > den \/ (2 * r = den /\ word_count \in LENGTH_TIES_UP)
        THEN q + 1 ELSE q

_score_length(text) ==
    LET word_count == _count_words(text)
        wc == ToStr(word_count)
    IN  IF word_count < 5
        THEN DimensionScore("Length", 20,
                 wc \o " words -- too short to convey a meaningful task")
        ELSE IF word_count < 10
        THEN DimensionScore("Length", 40,
                 wc \o " words -- quite short, likely missing details")
        ELSE IF word_count < 20
        THEN DimensionScore("Length", 60, wc \o " words -- on the short side")
        ELSE IF word_count <= 300
        THEN DimensionScore("Length",
                 Min(100, RoundLength(80 * 140 + Min(280, word_count - 20) * 10,
                                      140, word_count)),
                 wc \o " words -- good length")
        ELSE IF word_count <= 500
        THEN DimensionScore("Length", 70,
                 wc \o " words -- on the long side, consider trimming")
        ELSE DimensionScore("Length",
                 Min(100, Max(30, RoundLength(70 * 200 - (word_count - 500) * 10,
                                              200, word_count))),
                 wc \o " words -- quite long, risk of losing focus")

(***************************************************************************)
(* Anti-pattern detection.                                                 *)
(***************************************************************************)
\* Faulty variant of FirstSignal: the last regex that matches is taken.
LastSignal(text, signals, k) ==
    LET hits == {r \in k..Len(signals) : Matches(text, signals[r])}
    IN  IF hits = {} THEN 0 ELSE CHOOSE r \in hits : \A m \in hits : m <= r

\* The first pattern of signals, from the k-th on, that matches the text
\* (0 when none does).
RECURSIVE FirstSignal(_, _, _)
FirstSignal(text, signals, k) ==
    IF k > Len(signals) THEN 0
    ELSE IF Matches(text, signals[k]) THEN k
    ELSE FirstSignal(text, signals, k + 1)

\* The first keyword, from the k-th on, that the lowered text contains
\* (0 when none is).
RECURSIVE FirstKeyword(_, _, _)
FirstKeyword(text_lower, keywords, k) ==
    IF k > Len(keywords) THEN 0
    ELSE IF Contains(text_lower, keywords[k]) THEN k
    ELSE FirstKeyword(text_lower, keywords, k + 1)

\* One pass of the loop body of _detect_anti_patterns for the pattern ap:
\* <<found, evidence>>.
DetectOne(ap, text, text_lower) ==
    IF ap.id = "missing_role"
    THEN IF ~_has_any_keyword(text_lower, ROLE_KEYWORDS)
         THEN <<TRUE, "No role or persona assignment found">> ELSE <<FALSE, "">>
    ELSE IF ap.id = "missing_output_format"
    THEN IF ~_has_any_keyword(text_lower, OUTPUT_FORMAT_KEYWORDS)
         THEN <<TRUE, "No output format specification found">> ELSE <<FALSE, "">>
    ELSE IF ap.id = "missing_context"
    THEN IF ~_has_any_keyword(text_lower, CONTEXT_SIGNALS)
         THEN <<TRUE, "No contextual background found">> ELSE <<FALSE, "">>
    ELSE IF ap.id = "no_constraints"
    THEN IF _count_keyword_hits(text_lower, CONSTRAINT_KEYWORDS) = 0
         THEN <<TRUE, "No constraint or boundary keywords found">> ELSE <<FALSE, "">>
    ELSE IF ap.id = "no_examples"
    THEN IF ~_has_any_keyword(text_lower, EXAMPLE_KEYWORDS)
         THEN <<TRUE, "No example or sample output found">> ELSE <<FALSE, "">>
    ELSE IF ap.id = "multiple_requests"
    THEN LET distinct == _count_distinct_tasks(text)
         IN  IF distinct >= 3
             THEN <<TRUE, "Detected ~" \o ToStr(distinct) \o " distinct tasks/requests">>
             ELSE <<FALSE, "">>
    ELSE LET r == FirstSignal(text, ap.positive_signals, 1)
         IN  IF r > 0
             THEN <<TRUE, "Matched: \"" \o MatchGroup(text, ap.positive_signals[r]) \o "\"">>
             ELSE LET k == FirstKeyword(text_lower, ap.keyword_signals, 1)
                  IN  IF k > 0
                      THEN <<TRUE, "Contains: \"" \o ap.keyword_signals[k] \o "\"">>
                      ELSE <<FALSE, "">>

\* The loop of _detect_anti_patterns over the patterns from the k-th on,
\* appending to detected.
RECURSIVE DetectFrom(_, _, _, _, _)
DetectFrom(patterns, k, text, text_lower, detected) ==
    IF k > Len(patterns) THEN detected
    ELSE LET d == DetectOne(patterns[k], text, text_lower)
         IN  DetectFrom(patterns, k + 1, text, text_lower,
                        IF d[1] THEN Append(detected, DetectedAntiPattern(patterns[k], d[2]))
                        ELSE detected)

\* Faulty variant of _detect_anti_patterns: the catalog is walked backwards.
DetectReversed(text, text_lower) ==
    DetectFrom([k \in 1..Len(ALL_PATTERNS) |-> ALL_PATTERNS[Len(ALL_PATTERNS) + 1 - k]],
               1, text, text_lower, <<>>)

_detect_anti_patterns(text, text_lower) ==
    DetectFrom(ALL_PATTERNS, 1, text, text_lower, <<>>)

(***************************************************************************)
(* Suggestion generation.                                                  *)
(***************************************************************************)
\* severity_order.get(severity, 3)
SeverityRank(severity) ==
    IF severity = "high" THEN 0
    ELSE IF severity = "medium" THEN 1
    ELSE IF severity = "low" THEN 2
    ELSE 3

\* Faulty variant of InsertByRank: d goes in front of the entries of its own
\* rank, so the sort is not stable.
RECURSIVE InsertBeforeEqual(_, _)
InsertBeforeEqual(sorted, d) ==
    IF sorted = <<>> THEN <<d>>
    ELSE IF SeverityRank(Head(sorted).pattern.severity) < SeverityRank(d.pattern.severity)
         THEN <<Head(sorted)>> \o InsertBeforeEqual(Tail(sorted), d)
         ELSE <<d>> \o sorted

\* d put into the list sorted by rank, behind every entry whose rank is not
\* greater than its own.
RECURSIVE InsertByRank(_, _)
InsertByRank(sorted, d) ==
    IF sorted = <<>> THEN <<d>>
    ELSE IF SeverityRank(Head(sorted).pattern.severity) <= SeverityRank(d.pattern.severity)
         THEN <<Head(sorted)>> \o InsertByRank(Tail(sorted), d)
         ELSE <<d>> \o sorted

\* sorted(anti_patterns, key = rank): a stable sort.
RECURSIVE SortBySeverity(_)
SortBySeverity(aps) ==
    IF aps = <<>> THEN <<>>
    ELSE InsertByRank(SortBySeverity(SubSeq(aps, 1, Len(aps) - 1)), aps[Len(aps)])

\* The loop over sorted_patterns from the k-th on: a suggestion for each
\* pattern id not seen before.
RECURSIVE CollectSuggestions(_, _, _, _)
CollectSuggestions(sorted, k, seen_ids, suggestions) ==
    IF k > Len(sorted) THEN suggestions
    ELSE IF sorted[k].pattern.id \notin seen_ids
         THEN CollectSuggestions(sorted, k + 1, seen_ids \cup {sorted[k].pattern.id},
                                 Append(suggestions, sorted[k].pattern.suggestion))
         ELSE CollectSuggestions(sorted, k + 1, seen_ids, suggestions)

ENCOURAGEMENT ==
    "This is already a strong prompt. Consider adding edge-case handling or examples for even better results."

\* Faulty variant of _generate_suggestions: the encouragement is appended
\* whenever no anti-pattern gave a suggestion, whatever the scores.
SuggestionsNeverEmptyVariant(dimensions, anti_patterns) ==
    LET suggestions == CollectSuggestions(SortBySeverity(anti_patterns), 1, {}, <<>>)
    IN  IF suggestions = <<>> THEN Append(suggestions, ENCOURAGEMENT) ELSE suggestions

\* Faulty variant of _generate_suggestions: the encouragement is appended
\* whenever no dimension scored low, whatever the patterns suggested.
EncourageWithoutLowDimensions(dimensions, anti_patterns) ==
    LET suggestions == CollectSuggestions(SortBySeverity(anti_patterns), 1, {}, <<>>)
        low_dims == {k \in 1..Len(dimensions) : dimensions[k].score < 60}
    IN  IF low_dims = {} THEN Append(suggestions, ENCOURAGEMENT) ELSE suggestions

_generate_suggestions(dimensions, anti_patterns) ==
    LET suggestions == CollectSuggestions(SortBySeverity(anti_patterns), 1, {}, <<>>)
        low_dims == {k \in 1..Len(dimensions) : dimensions[k].score < 60}
    IN  IF low_dims = {} /\ suggestions = <<>>
        THEN Append(suggestions, ENCOURAGEMENT)
        ELSE suggestions

(***************************************************************************)
(* The derived properties of the result.                                   *)
(***************************************************************************)
\* Faulty variant of Weight: every dimension weighs the same.
WeightEqual(name) == 25

\* weights.get(name, 0.25), in hundredths
Weight(name) ==
    IF name = "Clarity" THEN 30
    ELSE IF name = "Structure" THEN 25
    ELSE IF name = "Specificity" THEN 25
    ELSE IF name = "Length" THEN 20
    ELSE 25

RECURSIVE WeightedSum(_)
WeightedSum(dims) ==
    IF dims = <<>> THEN 0
    ELSE Head(dims).score * Weight(Head(dims).name) + WeightedSum(Tail(dims))

RECURSIVE TotalWeight(_)
TotalWeight(dims) ==
    IF dims = <<>> THEN 0 ELSE Weight(Head(dims).name) + TotalWeight(Tail(dims))

\* AnalysisResult.overall_score, in tenths: the values round(x, 1) can return.
\* Off a tie it is the tenth nearest to the weighted mean.  On a tie (x.x5 in
\* decimal) the result depends on which side of the tie the double
\* weighted_sum / total_weight lies, which the rounding errors of the four
\* products and sums decide: both neighbours are kept.
overall_score(dims) ==
    IF dims = <<>> THEN {0}
    ELSE LET total_weight == TotalWeight(dims)
             weighted_sum == WeightedSum(dims)
         IN  IF total_weight = 0 THEN {0}
             ELSE LET q == weighted_sum \div total_weight
                      r == weighted_sum % total_weight
                  IN  IF 2 * r > total_weight THEN {q + 1}
                      ELSE IF 2 * r < total_weight THEN {q}
                      ELSE {q, q + 1}

\* Faulty variant of label: a score on a threshold gets the label below it.
labelAbove(score) ==
    IF score > 80 THEN "Excellent"
    ELSE IF score > 60 THEN "Good"
    ELSE IF score > 40 THEN "Fair"
    ELSE IF score > 20 THEN "Weak"
    ELSE "Poor"

\* DimensionScore.label
label(score) ==
    IF score >= 80 THEN "Excellent"
    ELSE IF score >= 60 THEN "Good"
    ELSE IF score >= 40 THEN "Fair"
    ELSE IF score >= 20 THEN "Weak"
    ELSE "Poor"

\* AnalysisResult.overall_label, for the overall score s
overall_label(s) ==
    IF s >= 80 THEN "Excellent"
    ELSE IF s >= 60 THEN "Good"
    ELSE IF s >= 40 THEN "Fair"
    ELSE IF s >= 20 THEN "Weak"
    ELSE "Poor"

(***************************************************************************)
(* The enhancer's reading of a remote response (enhancer.py).              *)
(***************************************************************************)
IMPROVED_LABELS == <<"improved prompt", "rewritten prompt", "enhanced prompt">>
EXPLANATION_LABELS == <<"explanation", "what i changed", "changes made">>

\* re.search(r'(?:label|...)[:\s]*\n(...)', content, re.I | re.S): the
\* position where group 1 starts in the leftmost match, 0 when there is no
\* match.  A label matches in any case; [:\s]* takes the colons and blanks
\* behind it and gives back as few as it must for \n to follow, so group 1
\* starts behind the last line break among them.
SectionStart(content, labels) ==
    LET low == Lower(content)
        LabelEnd(i) ==
            LET hits == {k \in 1..Len(labels) : At(low, i, labels[k])}
            IN  IF hits = {} THEN 0 ELSE i + Len(labels[Least(hits)])
        InRun(e, j) ==
            \A m \in e..j : Char(content, m) \in SpaceSet \cup {":"}
        GroupStart(e) ==
            LET breaks == {j \in e..Len(content) :
                              Char(content, j) = "\n" /\ InRun(e, j)}
            IN  IF e = 0 \/ breaks = {} THEN 0
                ELSE 1 + CHOOSE j \in breaks : \A m \in breaks : m <= j
        starts == {i \in 1..Len(content) : GroupStart(LabelEnd(i)) > 0}
    IN  IF starts = {} THEN 0 ELSE GroupStart(LabelEnd(Least(starts)))

\* The two labelled sections of a response, stripped: <<improved prompt,
\* explanation>>, or <<>> when the two searches do not both match.
LabelledSections(content) ==
    LET low == Lower(content)
        g1 == SectionStart(content, IMPROVED_LABELS)
        g2 == SectionStart(content, EXPLANATION_LABELS)
        \* (.*?)(?=\n(?:explanation|...)|$): group 1 ends in front of the
        \* first line break an explanation label follows, or at the end of
        \* the response ($ also matches in front of a final line break)
        Ends(e) ==
            \/ e = Len(content) + 1
            \/ e = Len(content) /\ Char(content, e) = "\n"
            \/ /\ Char(content, e) = "\n"
               /\ \E k \in 1..Len(EXPLANATION_LABELS) :
                      At(low, e + 1, EXPLANATION_LABELS[k])
        e1 == Least({e \in g1..(Len(content) + 1) : Ends(e)})
    IN  IF g1 > 0 /\ g2 > 0
        THEN <<Strip(SubSeq(content, g1, e1 - 1)),
               Strip(SubSeq(content, g2, Len(content)))>>
        ELSE <<>>

\* Faulty variant of _parse_enhancement_response: without both sections the
\* whole response is the improved prompt, blank line or not.
ParseWithoutBlankLineSplit(content) ==
    IF LabelledSections(content) # <<>> THEN LabelledSections(content)
    ELSE <<Strip(content), "See improved prompt above.">>

\* _parse_enhancement_response(content): <<improved prompt, explanation>>
_parse_enhancement_response(content) ==
    LET stripped == Strip(content)
        blank == {j \in 1..(Len(stripped) - 1) : At(stripped, j, "\n\n")}
    IN  IF LabelledSections(content) # <<>> THEN LabelledSections(content)
        \* parts = content.strip().split("\n\n", 1)
        ELSE IF blank # {}
        THEN <<Strip(SubSeq(stripped, 1, Least(blank) - 1)),
               Strip(SubSeq(stripped, Least(blank) + 2, Len(stripped)))>>
        ELSE <<stripped, "See improved prompt above.">>

(***************************************************************************)
(* The JSON report (reporter.py).  A JSON document is kept as the tree of  *)
(* its members: an object is a record, an array a sequence, and a string   *)
(* or a number is the text json.dumps writes for it.                       *)
(***************************************************************************)
\* json.dumps of a str: in quotes, with ", \ and the control characters
\* escaped.
JsonString(s) ==
    LET Escaped(c) ==
            CASE c = "\"" -> "\\\""
              [] c = "\\" -> "\\\\"
              [] c = "\n" -> "\\n"
              [] c = "\r" -> "\\r"
              [] c = "\t" -> "\\t"
              [] OTHER -> c
        RECURSIVE Esc(_)
        Esc(x) ==
            IF Len(x) = 0 THEN ""
            ELSE IF Len(x) = 1 THEN Escaped(x)
            ELSE LET h == Len(x) \div 2
                 IN  Esc(SubSeq(x, 1, h)) \o Esc(SubSeq(x, h + 1, Len(x)))
    IN  "\"" \o Esc(s) \o "\""

\* Faulty variant of JsonFloat: the score is written without its decimal.
JsonFloatWhole(tenths) == ToStr(tenths \div 10)

\* json.dumps of a float with one decimal (repr): 7.5, 10.0, 0.0
JsonFloat(tenths) == ToStr(tenths \div 10) \o "." \o ToStr(tenths % 10)

\* render_json(result, enhancement), the overall score being
\* result.overall_score as the property returns it.
render_json(res, score, enh) ==
    LET data ==
            [prompt |-> JsonString(res.prompt),
             overall_score |-> JsonFloat(score),
             overall_label |-> JsonString(overall_label(score)),
             word_count |-> ToStr(res.word_count),
             sentence_count |-> ToStr(res.sentence_count),
             dimensions |->
                 [k \in 1..Len(res.dimensions) |->
                     LET d == res.dimensions[k]
                     IN  [name |-> JsonString(d.name),
                          score |-> JsonFloat(d.score),
                          max_score |-> JsonFloat(d.max_score),
                          label |-> JsonString(label(d.score)),
                          details |-> JsonString(d.details)]],
             anti_patterns |->
                 [k \in 1..Len(res.anti_patterns) |->
                     LET d == res.anti_patterns[k]
                     IN  [id |-> JsonString(d.pattern.id),
                          name |-> JsonString(d.pattern.name),
                          category |-> JsonString(d.pattern.category),
                          severity |-> JsonString(d.pattern.severity),
                          description |-> JsonString(d.pattern.description),
                          suggestion |-> JsonString(d.pattern.suggestion),
                          evidence |-> JsonString(d.evidence)]],
             suggestions |->
                 [k \in 1..Len(res.suggestions) |->
                     JsonString(res.suggestions[k])]]
    IN  \* if enhancement: data["enhancement"] = {...}
        IF enh # <<>>
        THEN ("enhancement" :>
                 [improved_prompt |-> JsonString(enh[1].improved_prompt),
                  explanation |-> JsonString(enh[1].explanation),
                  provider |-> JsonString(enh[1].provider),
                  model |-> JsonString(enh[1].model)]) @@ data
        ELSE data

\* json.loads of a document render_json wrote.  A string loses its quotes
\* and its escapes; a number with a decimal point is a float, kept in
\* tenths, and one without is an int.
json_loads(doc) ==
    LET Digit(c) == CHOOSE n \in 0..9 : Char(Digits, n + 1) = c
        RECURSIVE Decimal(_)
        Decimal(x) == IF Len(x) = 0 THEN 0
                  ELSE 10 * Decimal(SubSeq(x, 1, Len(x) - 1))
                       + Digit(Char(x, Len(x)))
        Number(x) ==
            LET dots == {i \in 1..Len(x) : Char(x, i) = "."}
            IN  IF dots = {} THEN Decimal(x)
                ELSE 10 * Decimal(SubSeq(x, 1, Least(dots) - 1))
                     + Digit(Char(x, Least(dots) + 1))
        Text(x) ==
            LET body == SubSeq(x, 2, Len(x) - 1)
                \* a backslash opens an escape unless it is itself escaped
                RECURSIVE Opens(_)
                Opens(i) == /\ i >= 1
                            /\ Char(body, i) = "\\"
                            /\ ~Opens(i - 1)
                Plain(i) ==
                    IF Opens(i) THEN ""
                    ELSE IF ~Opens(i - 1) THEN Char(body, i)
                    ELSE CASE Char(body, i) = "n" -> "\n"
                           [] Char(body, i) = "r" -> "\r"
                           [] Char(body, i) = "t" -> "\t"
                           [] OTHER -> Char(body, i)
                RECURSIVE Un(_, _)
                Un(lo, hi) ==
                    IF lo > hi THEN ""
                    ELSE IF lo = hi THEN Plain(lo)
                    ELSE LET h == (lo + hi) \div 2
                         IN  Un(lo, h) \o Un(h + 1, hi)
            IN  Un(1, Len(body))
        Scalar(x) == IF Char(x, 1) = "\"" THEN Text(x) ELSE Number(x)
        Object(o) == [k \in DOMAIN o |-> Scalar(o[k])]
        Array(a) == [k \in 1..Len(a) |-> Object(a[k])]
        data ==
            [prompt |-> Scalar(doc.prompt),
             overall_score |-> Scalar(doc.overall_score),
             overall_label |-> Scalar(doc.overall_label),
             word_count |-> Scalar(doc.word_count),
             sentence_count |-> Scalar(doc.sentence_count),
             dimensions |-> Array(doc.dimensions),
             anti_patterns |-> Array(doc.anti_patterns),
             suggestions |-> [k \in 1..Len(doc.suggestions) |->
                                 Scalar(doc.suggestions[k])]]
    IN  IF "enhancement" \in DOMAIN doc
        THEN ("enhancement" :> Object(doc.enhancement)) @@ data
        ELSE data

(***************************************************************************)
(* The inputs of the model.                                                *)
(***************************************************************************)
\* The pieces prompts are built from: a line break, a question mark, a phrase
\* that is vague and, at the start, an ambiguous reference, a vague phrase,
\* a phrase with role, output format and context keywords, one with
\* constraints, a number and a mid-clause "also", one with an example and
\* constraints, and one with three clause starts.
Pieces ==
    {"\n", "?",
     "Improve this ",
     "make it good",
     "As a report, we need ",
     "must also be under 20 words ",
     "e.g. keep it formal ",
     "Write it. Also help me\nand can you also fix"}

\* The concatenations of at most n pieces.
RECURSIVE PromptsOf(_)
PromptsOf(n) ==
    IF n = 0 THEN {""}
    ELSE LET shorter == PromptsOf(n - 1)
         IN  shorter \cup {p \o x : p \in shorter, x \in Pieces}

Prompts == PromptsOf(MaxPieces)

\* The prompts of the callers that call analyze repeatedly, and the prompt
\* they analyze in between.
RepeatPrompts == PromptsOf(RepeatPieces)
Interleaved == "Improve this ??"

(***************************************************************************)
(* The state: one caller of analyze, the locals of the call in progress,   *)
(* and what the caller holds afterwards.                                   *)
(***************************************************************************)
VARIABLES
    pc,             \* where the caller is: "idle", inside analyze, "returned", ...
    prompt,         \* the argument of the call
    text,           \* analyze's local: the stripped prompt
    text_lower,     \* analyze's local: text.lower()
    dimensions,     \* analyze's local: the four DimensionScore
    anti_patterns,  \* analyze's local: the DetectedAntiPattern list
    suggestions,    \* analyze's local: the suggestion strings
    result,         \* the AnalysisResult the caller holds (NoResult before)
    overall,        \* result.overall_score as the caller read it ({} before)
    invoked,        \* the functions the call in progress has run
    calls,          \* the calls of analyze made so far
    returned        \* the results of the completed calls, with their arguments

\* The state of the callers of the other functions of the package: analyze
\* reads and writes none of it.
VARIABLES
    fn,             \* the derived property or helper under study ("" if none)
    arg,            \* the argument it is applied to
    out             \* what it returned: <<>> before, <<value, ...>> after

applied == <<fn, arg, out>>

\* The state of a run of the command `promptlab analyze` (cli.py) and of the
\* enhancer it may call (enhancer.py).  None is <<>>, a value v is <<v>>.
VARIABLES
    cli_pc,         \* where the command is ("off": no command runs)
    argv,           \* prompt_text, file, output_json, output_md, enhance_flag
    stdin,          \* sys.stdin: isatty, and the text piped in
    disk,           \* what open(file) finds: state and text of the file
    environ,        \* PROMPTLAB_API_KEY, PROMPTLAB_PROVIDER, PROMPTLAB_MODEL
    source,         \* where _read_prompt took the prompt from ("" before)
    console,        \* the messages printed
    exit_status,    \* "" while running; "0", "SystemExit(1)", "Traceback"
    echoed,         \* the report rendered
    enhancement,    \* analyze_cmd's local
    api_key,        \* enhance's local
    provider,       \* enhance's local
    model,          \* _enhance_openai's and _enhance_anthropic's local
    content,        \* the text of the remote response
    remote_calls,   \* the requests sent to a provider
    raised          \* the last exception the enhancer raised

cli == <<cli_pc, argv, stdin, disk, environ, source, console, exit_status,
         echoed, enhancement, api_key, provider, model, content,
         remote_calls, raised>>

\* The threads that call analyze at the same time.  One thread runs, and
\* its locals are the variables above; the locals of the others are kept
\* in waiting.  The pattern catalog and the keyword banks are objects of the
\* module patterns, which every thread reads.
VARIABLES
    waiting,        \* the suspended threads: pc, prompt, locals, result
    catalog         \* patterns.ALL_PATTERNS and the keyword banks

\* The objects of the module patterns, as created when it is imported.
PatternModule ==
    [ALL_PATTERNS |-> ALL_PATTERNS,
     ROLE_KEYWORDS |-> ROLE_KEYWORDS,
     OUTPUT_FORMAT_KEYWORDS |-> OUTPUT_FORMAT_KEYWORDS,
     CONTEXT_SIGNALS |-> CONTEXT_SIGNALS,
     CONSTRAINT_KEYWORDS |-> CONSTRAINT_KEYWORDS,
     EXAMPLE_KEYWORDS |-> EXAMPLE_KEYWORDS]

outside == <<applied, cli, waiting, catalog>>

vars == <<pc, prompt, text, text_lower, dimensions, anti_patterns, suggestions,
          result, overall, invoked, calls, returned, outside>>

locals == <<text, text_lower, dimensions, anti_patterns, suggestions>>

\* Nothing has been applied.
AppliedIdle ==
    /\ fn = ""
    /\ arg = <<>>
    /\ out = <<>>

\* No command runs.
CliIdle ==
    /\ cli_pc = "off"
    /\ argv = <<>>
    /\ stdin = <<>>
    /\ disk = <<>>
    /\ environ = <<>>
    /\ source = ""
    /\ console = <<>>
    /\ exit_status = ""
    /\ echoed = <<>>
    /\ enhancement = <<>>
    /\ api_key = <<>>
    /\ provider = <<>>
    /\ model = <<>>
    /\ content = <<>>
    /\ remote_calls = <<>>
    /\ raised = <<>>

\* Nothing but the one caller of analyze.
OutsideIdle ==
    /\ AppliedIdle
    /\ CliIdle
    /\ waiting = <<>>
    /\ catalog = PatternModule

NoResult == [prompt |-> "", dimensions |-> <<>>, anti_patterns |-> <<>>,
             suggestions |-> <<>>, word_count |-> -1, sentence_count |-> -1]

Fresh(inputs) ==
    /\ pc = "idle"
    /\ prompt \in inputs
    /\ text = ""
    /\ text_lower = ""
    /\ dimensions = <<>>
    /\ anti_patterns = <<>>
    /\ suggestions = <<>>
    /\ result = NoResult
    /\ overall = {}
    /\ invoked = {}
    /\ calls = 0
    /\ returned = <<>>

InitWith(inputs) ==
    /\ Fresh(inputs)
    /\ OutsideIdle

Init == InitWith(Prompts)

(***************************************************************************)
(* analyze(prompt), statement by statement.                                *)
(***************************************************************************)
\* The caller calls analyze(prompt); text = prompt.strip()
Call ==
    /\ pc = "idle"
    /\ calls < MaxCalls
    /\ pc' = "stripped"
    /\ calls' = calls + 1
    /\ text' = Strip(prompt)
    /\ text_lower' = ""
    /\ dimensions' = <<>>
    /\ anti_patterns' = <<>>
    /\ suggestions' = <<>>
    /\ invoked' = {}
    /\ UNCHANGED <<prompt, result, overall, returned>>
    /\ UNCHANGED outside

\* Faulty variant of ReturnEmpty: the early return tests the argument, not the
\* stripped text, so a blank prompt finds no branch to take.
ReturnEmptyUnstripped ==
    /\ pc = "stripped"
    /\ prompt = ""
    /\ pc' = "returned"
    /\ result' = AnalysisResult(prompt,
                    <<DimensionScore("Clarity", 10, "Empty prompt"),
                      DimensionScore("Structure", 10, "Empty prompt"),
                      DimensionScore("Specificity", 10, "Empty prompt"),
                      DimensionScore("Length", 10, "0 words")>>,
                    <<>>,
                    <<"Provide a non-empty prompt to analyze.">>,
                    0, 0)
    /\ returned' = Append(returned, [prompt |-> prompt, result |-> result'])
    /\ overall' = {}
    /\ UNCHANGED <<prompt, locals, invoked, calls>>
    /\ UNCHANGED outside

\* if not text: return AnalysisResult(... four dimensions at 1.0 ...)
ReturnEmpty ==
    /\ pc = "stripped"
    /\ text = ""
    /\ pc' = "returned"
    /\ result' = AnalysisResult(prompt,
                    <<DimensionScore("Clarity", 10, "Empty prompt"),
                      DimensionScore("Structure", 10, "Empty prompt"),
                      DimensionScore("Specificity", 10, "Empty prompt"),
                      DimensionScore("Length", 10, "0 words")>>,
                    <<>>,
                    <<"Provide a non-empty prompt to analyze.">>,
                    0, 0)
    /\ returned' = Append(returned, [prompt |-> prompt, result |-> result'])
    /\ overall' = {}
    /\ UNCHANGED <<prompt, locals, invoked, calls>>
    /\ UNCHANGED outside

\* text_lower = text.lower()
LowerText ==
    /\ pc = "stripped"
    /\ text # ""
    /\ pc' = "lowered"
    /\ text_lower' = Lower(text)
    /\ UNCHANGED <<prompt, text, dimensions, anti_patterns, suggestions, result,
                   overall, invoked, calls, returned>>
    /\ UNCHANGED outside

\* dimensions = [_score_clarity(...), _score_structure(...), ...]
ScoreDimensions ==
    /\ pc = "lowered"
    /\ pc' = "scored"
    /\ dimensions' = <<_score_clarity(text, text_lower),
                       _score_structure(text, text_lower),
                       _score_specificity(text, text_lower),
                       _score_length(text)>>
    /\ invoked' = invoked \cup {"_score_clarity", "_score_structure",
                                "_score_specificity", "_score_length"}
    /\ UNCHANGED <<prompt, text, text_lower, anti_patterns, suggestions, result,
                   overall, calls, returned>>
    /\ UNCHANGED outside

\* Faulty variant of DetectAntiPatterns: the detected list outlives the call,
\* and each call appends to what the call before it found.
DetectAntiPatternsShared ==
    /\ pc = "scored"
    /\ pc' = "detected"
    /\ anti_patterns' =
          (IF returned = <<>> THEN <<>>
           ELSE returned[Len(returned)].result.anti_patterns)
          \o _detect_anti_patterns(text, text_lower)
    /\ invoked' = invoked \cup {"_detect_anti_patterns"}
    /\ UNCHANGED <<prompt, text, text_lower, dimensions, suggestions, result,
                   overall, calls, returned>>
    /\ UNCHANGED outside

\* anti_patterns = _detect_anti_patterns(text, text_lower)
DetectAntiPatterns ==
    /\ pc = "scored"
    /\ pc' = "detected"
    /\ anti_patterns' = _detect_anti_patterns(text, text_lower)
    /\ invoked' = invoked \cup {"_detect_anti_patterns"}
    /\ UNCHANGED <<prompt, text, text_lower, dimensions, suggestions, result,
                   overall, calls, returned>>
    /\ UNCHANGED outside

\* suggestions = _generate_suggestions(dimensions, anti_patterns)
GenerateSuggestions ==
    /\ pc = "detected"
    /\ pc' = "composed"
    /\ suggestions' = _generate_suggestions(dimensions, anti_patterns)
    /\ invoked' = invoked \cup {"_generate_suggestions"}
    /\ UNCHANGED <<prompt, text, text_lower, dimensions, anti_patterns, result,
                   overall, calls, returned>>
    /\ UNCHANGED outside

\* return AnalysisResult(prompt=text, ...)
Return ==
    /\ pc = "composed"
    /\ pc' = "returned"
    /\ result' = AnalysisResult(text, dimensions, anti_patterns, suggestions,
                                _count_words(text), _count_sentences(text))
    /\ returned' = Append(returned, [prompt |-> prompt, result |-> result'])
    /\ overall' = {}
    /\ UNCHANGED <<prompt, locals, invoked, calls>>
    /\ UNCHANGED outside

\* The caller reads result.overall_score.
ReadOverall ==
    /\ pc \in {"returned", "constructed"}
    /\ overall = {}
    /\ \E s \in overall_score(result.dimensions) : overall' = {s}
    /\ UNCHANGED <<pc, prompt, locals, result, invoked, calls, returned>>
    /\ UNCHANGED outside

\* The caller builds AnalysisResult(prompt=prompt) itself: every other field
\* keeps its default.
Construct ==
    /\ pc = "idle"
    /\ calls = 0
    /\ pc' = "constructed"
    /\ result' = AnalysisResult(prompt, <<>>, <<>>, <<>>, 0, 0)
    /\ UNCHANGED <<prompt, locals, overall, invoked, calls, returned>>
    /\ UNCHANGED outside

\* The caller, holding a result, gets ready to call analyze once more: with
\* the argument of its first call, or with another prompt in between.
Again ==
    /\ pc = "returned"
    /\ calls < MaxCalls
    /\ pc' = "idle"
    /\ prompt' \in {returned[1].prompt, Interleaved}
    /\ UNCHANGED <<locals, result, overall, invoked, calls, returned>>
    /\ UNCHANGED outside

Analyze ==
    \/ Call
    \/ ReturnEmpty
    \/ LowerText
    \/ ScoreDimensions
    \/ DetectAntiPatterns
    \/ GenerateSuggestions
    \/ Return

Next == Analyze \/ ReadOverall \/ Construct

Spec == Init /\ [][Next]_vars

\* A call of analyze, once entered, runs on: the interpreter executes one
\* statement after the other.  The early return and the final return are
\* taken when they can be taken.  The statements between them have no
\* condition but the failed test of "if not text" and their place in the
\* code, so the call does not stay in front of any of them for ever.
FairSpec ==
    /\ Spec
    /\ WF_vars(ReturnEmpty)
    /\ WF_vars(Return)
    /\ []<>~(pc = "stripped" /\ text # "")
    /\ []<>(pc # "lowered")
    /\ []<>(pc # "scored")
    /\ []<>(pc # "detected")

\* A caller that calls analyze up to MaxCalls times.
InitRepeat == InitWith(RepeatPrompts)

NextRepeat == Analyze \/ Again

SpecRepeat == InitRepeat /\ [][NextRepeat]_vars

(***************************************************************************)
(* The labels, read for two scores at a time.                              *)
(***************************************************************************)
\* The scores, in tenths, a label is read for.
LabelScores == 0..MaxLabelScore

InitLabel ==
    /\ Fresh({""})
    /\ CliIdle
    /\ waiting = <<>>
    /\ catalog = PatternModule
    /\ fn = "label"
    /\ arg \in LabelScores \X LabelScores
    /\ out = <<>>

\* A DimensionScore and an AnalysisResult are held for each of the two
\* scores, and .label and .overall_label are read.
ReadLabels ==
    /\ fn = "label"
    /\ out = <<>>
    /\ out' = <<label(arg[1]), overall_label(arg[1]),
                label(arg[2]), overall_label(arg[2])>>
    /\ UNCHANGED <<pc, prompt, locals, result, overall, invoked, calls,
                   returned, fn, arg, cli, waiting,
                   catalog>>

SpecLabel == InitLabel /\ [][ReadLabels]_vars

(***************************************************************************)
(* The reading of a remote response, for the responses built from pieces.  *)
(***************************************************************************)
\* The pieces of a response: a labelled prompt, an explanation label on a
\* line of its own, a sentence, a line break, a blank line, a label with the
\* text on its line, an instruction with a blank behind it, and a label
\* followed by a blank line.
ResponsePieces ==
    {"Improved Prompt:\nDo X.",
     "\nExplanation:\n",
     "It is clearer.",
     "\n",
     "\n\n",
     "ENHANCED PROMPT: ",
     "List three risks. ",
     "What I changed:\n\n"}

RECURSIVE ResponsesOf(_)
ResponsesOf(n) ==
    IF n = 0 THEN {""}
    ELSE LET shorter == ResponsesOf(n - 1)
         IN  shorter \cup {r \o x : r \in shorter, x \in ResponsePieces}

InitParse ==
    /\ Fresh({""})
    /\ CliIdle
    /\ waiting = <<>>
    /\ catalog = PatternModule
    /\ fn = "_parse_enhancement_response"
    /\ arg \in ResponsesOf(MaxParts)
    /\ out = <<>>

\* improved, explanation = _parse_enhancement_response(content)
ParseResponse ==
    /\ fn = "_parse_enhancement_response"
    /\ out = <<>>
    /\ out' = _parse_enhancement_response(arg)
    /\ UNCHANGED <<pc, prompt, locals, result, overall, invoked, calls,
                   returned, fn, arg, cli, waiting,
                   catalog>>

SpecParse == InitParse /\ [][ParseResponse]_vars

(***************************************************************************)
(* The command `promptlab analyze` (cli.py) with the enhancer it calls     *)
(* (enhancer.py).  The command line, the file, stdin and the environment   *)
(* are fixed when the command starts; whether a provider's package is      *)
(* installed, whether its client can be constructed and how the remote     *)
(* call ends is decided when the command gets there.                       *)
(***************************************************************************)
InitCli ==
    /\ pc = "uncalled"
    /\ prompt = ""
    /\ text = ""
    /\ text_lower = ""
    /\ dimensions = <<>>
    /\ anti_patterns = <<>>
    /\ suggestions = <<>>
    /\ result = NoResult
    /\ overall = {}
    /\ invoked = {}
    /\ calls = 0
    /\ returned = <<>>
    /\ AppliedIdle
    /\ waiting = <<>>
    /\ catalog = PatternModule
    /\ cli_pc = "start"
    /\ argv \in [prompt_text : {<<>>, <<"">>, <<" ">>, <<"Improve this ??">>},
                 file : {<<>>, <<"">>, <<"prompt.txt">>},
                 output_json : BOOLEAN,
                 output_md : BOOLEAN,
                 enhance_flag : BOOLEAN]
    /\ stdin \in [isatty : {TRUE}, text : {""}]
                 \cup [isatty : {FALSE}, text : {"", "As a report, we need "}]
    /\ disk \in IF argv.file = <<"prompt.txt">>
                THEN [state : {"readable"}, text : {"\n", "make it good"}]
                     \cup [state : {"missing", "unreadable"}, text : {""}]
                ELSE [state : {"missing"}, text : {""}]
    /\ environ \in IF argv.enhance_flag
                   THEN [PROMPTLAB_API_KEY : {<<>>, <<" ">>, <<"sk-1 ">>},
                         PROMPTLAB_PROVIDER : {<<>>, <<" OpenAI">>,
                                               <<"anthropic">>, <<"cohere">>},
                         PROMPTLAB_MODEL : {<<>>, <<"gpt-4o">>}]
                   ELSE [PROMPTLAB_API_KEY : {<<>>},
                         PROMPTLAB_PROVIDER : {<<>>},
                         PROMPTLAB_MODEL : {<<>>}]
    /\ source = ""
    /\ console = <<>>
    /\ exit_status = ""
    /\ echoed = <<>>
    /\ enhancement = <<>>
    /\ api_key = <<>>
    /\ provider = <<>>
    /\ model = <<>>
    /\ content = <<>>
    /\ remote_calls = <<>>
    /\ raised = <<>>

\* prompt = _read_prompt(prompt_text, file).  `if prompt_text:` and
\* `if file:` test the truth of a str | None: None and "" are both false.
ReadPrompt ==
    /\ cli_pc = "start"
    /\ LET Given(x) == x # <<>> /\ x[1] # ""
           Returns(from, p) ==
               /\ prompt' = p
               /\ source' = from
               /\ cli_pc' = "read"
               /\ UNCHANGED <<console, exit_status>>
           Exits(message) ==
               /\ console' = Append(console, message)
               /\ exit_status' = "SystemExit(1)"
               /\ cli_pc' = "exited"
               /\ UNCHANGED <<prompt, source>>
       IN  IF Given(argv.prompt_text)
           THEN Returns("argument", argv.prompt_text[1])
           ELSE IF Given(argv.file)
           THEN CASE disk.state = "readable" -> Returns("file", disk.text)
                  [] disk.state = "missing" -> Exits("File not found")
                  [] OTHER -> Exits("Could not read file")
           ELSE IF ~stdin.isatty
           THEN Returns("stdin", stdin.text)
           ELSE Exits("No prompt provided.")
    /\ UNCHANGED <<pc, locals, result, overall, invoked, calls, returned>>
    /\ UNCHANGED <<waiting, catalog, applied, argv, stdin, disk, environ, echoed, enhancement,
                   api_key, provider, model, content, remote_calls, raised>>

\* Faulty variant of CheckEmpty: the prompt is tested as read, not stripped.
CheckEmptyUnstripped ==
    /\ cli_pc = "read"
    /\ IF prompt = ""
       THEN /\ console' = Append(console, "Prompt is empty.")
            /\ exit_status' = "SystemExit(1)"
            /\ cli_pc' = "exited"
            /\ pc' = pc
       ELSE /\ cli_pc' = "analyzing"
            /\ pc' = "idle"
            /\ UNCHANGED <<console, exit_status>>
    /\ UNCHANGED <<prompt, locals, result, overall, invoked, calls, returned>>
    /\ UNCHANGED <<waiting, catalog, applied, argv, stdin, disk, environ, source, echoed,
                   enhancement, api_key, provider, model, content,
                   remote_calls, raised>>

\* if not prompt.strip(): ... raise SystemExit(1); otherwise analyze(prompt)
\* is called.
CheckEmpty ==
    /\ cli_pc = "read"
    /\ IF Strip(prompt) = ""
       THEN /\ console' = Append(console, "Prompt is empty.")
            /\ exit_status' = "SystemExit(1)"
            /\ cli_pc' = "exited"
            /\ pc' = pc
       ELSE /\ cli_pc' = "analyzing"
            /\ pc' = "idle"
            /\ UNCHANGED <<console, exit_status>>
    /\ UNCHANGED <<prompt, locals, result, overall, invoked, calls, returned>>
    /\ UNCHANGED <<waiting, catalog, applied, argv, stdin, disk, environ, source, echoed,
                   enhancement, api_key, provider, model, content,
                   remote_calls, raised>>

\* result = analyze(prompt) has returned; enhancement = None;
\* if enhance_flag: ...
AnalyzeReturned ==
    /\ cli_pc = "analyzing"
    /\ pc = "returned"
    /\ enhancement' = <<>>
    /\ cli_pc' = IF argv.enhance_flag THEN "enhance" ELSE "render"
    /\ UNCHANGED <<pc, prompt, locals, result, overall, invoked, calls,
                   returned>>
    /\ UNCHANGED <<waiting, catalog, applied, argv, stdin, disk, environ, source, console,
                   exit_status, echoed, api_key, provider, model, content,
                   remote_calls, raised>>

\* Faulty variant of Enhance: a provider that is not "anthropic" is taken
\* to be "openai".
EnhanceAnyProvider ==
    /\ cli_pc = "enhance"
    /\ LET getenv(name, default) ==
               IF environ[name] = <<>> THEN default ELSE environ[name][1]
           key == Strip(getenv("PROMPTLAB_API_KEY", ""))
           p == Strip(Lower(getenv("PROMPTLAB_PROVIDER", "openai")))
       IN  /\ api_key' = <<key>>
           /\ IF key = ""
              THEN /\ raised' = <<[kind |-> "EnhancerError",
                                   message |-> "No API key found"]>>
                   /\ cli_pc' = "raised"
                   /\ provider' = provider
              ELSE /\ provider' = <<IF p = "anthropic" THEN p ELSE "openai">>
                   /\ cli_pc' = "import"
                   /\ raised' = raised
    /\ UNCHANGED <<pc, prompt, locals, result, overall, invoked, calls,
                   returned>>
    /\ UNCHANGED <<waiting, catalog, applied, argv, stdin, disk, environ, source, console,
                   exit_status, echoed, enhancement, model, content,
                   remote_calls>>

\* enhance(prompt, result), up to the call of _enhance_openai or
\* _enhance_anthropic.
Enhance ==
    /\ cli_pc = "enhance"
    /\ LET getenv(name, default) ==
               IF environ[name] = <<>> THEN default ELSE environ[name][1]
           key == Strip(getenv("PROMPTLAB_API_KEY", ""))
           p == Strip(Lower(getenv("PROMPTLAB_PROVIDER", "openai")))
       IN  /\ api_key' = <<key>>
           /\ IF key = ""
              THEN /\ raised' = <<[kind |-> "EnhancerError",
                                   message |-> "No API key found"]>>
                   /\ cli_pc' = "raised"
                   /\ provider' = provider
              ELSE /\ provider' = <<p>>
                   /\ IF p \in {"openai", "anthropic"}
                      THEN /\ cli_pc' = "import"
                           /\ raised' = raised
                      ELSE /\ raised' = <<[kind |-> "EnhancerError",
                                           message |-> "Unknown provider"]>>
                           /\ cli_pc' = "raised"
    /\ UNCHANGED <<pc, prompt, locals, result, overall, invoked, calls,
                   returned>>
    /\ UNCHANGED <<waiting, catalog, applied, argv, stdin, disk, environ, source, console,
                   exit_status, echoed, enhancement, model, content,
                   remote_calls>>

\* try: import openai / import anthropic; except ImportError: raise
\* EnhancerError(...)
ImportProvider ==
    /\ cli_pc = "import"
    /\ \E installed \in BOOLEAN :
          IF installed
          THEN /\ cli_pc' = "client"
               /\ raised' = raised
          ELSE /\ raised' = <<[kind |-> "EnhancerError",
                               message |-> "package is required"]>>
               /\ cli_pc' = "raised"
    /\ UNCHANGED <<pc, prompt, locals, result, overall, invoked, calls,
                   returned>>
    /\ UNCHANGED <<waiting, catalog, applied, argv, stdin, disk, environ, source, console,
                   exit_status, echoed, enhancement, api_key, provider, model,
                   content, remote_calls>>

\* client = openai.OpenAI(api_key=api_key) / anthropic.Anthropic(...), then
\* model = os.getenv("PROMPTLAB_MODEL", ...).  The constructor is called
\* outside any try: what it raises is not an EnhancerError.
ConstructClient ==
    /\ cli_pc = "client"
    /\ \E constructed \in BOOLEAN :
          IF constructed
          THEN /\ model' = <<IF environ.PROMPTLAB_MODEL # <<>>
                             THEN environ.PROMPTLAB_MODEL[1]
                             ELSE IF provider = <<"openai">>
                             THEN "gpt-4o-mini"
                             ELSE "claude-sonnet-4-20250514">>
               /\ cli_pc' = "call"
               /\ raised' = raised
          ELSE /\ raised' = <<[kind |-> "Exception",
                               message |-> "client"]>>
               /\ cli_pc' = "raised"
               /\ model' = model
    /\ UNCHANGED <<pc, prompt, locals, result, overall, invoked, calls,
                   returned>>
    /\ UNCHANGED <<waiting, catalog, applied, argv, stdin, disk, environ, source, console,
                   exit_status, echoed, enhancement, api_key, provider,
                   content, remote_calls>>

\* try: response = client...create(...); content = ...; except Exception
\* as e: raise EnhancerError(...)
RemoteCall ==
    /\ cli_pc = "call"
    /\ remote_calls' = Append(remote_calls,
                              [provider |-> provider[1], model |-> model[1],
                               api_key |-> api_key[1], prompt |-> prompt])
    /\ \/ /\ content' \in {<<"">>, <<"Do X.\n\nIt is clearer.">>,
                           <<"Improved Prompt:\nDo X.\nExplanation:\nIt is clearer.">>}
          /\ cli_pc' = "parse"
          /\ raised' = raised
       \/ /\ raised' = <<[kind |-> "EnhancerError", message |-> "API error"]>>
          /\ cli_pc' = "raised"
          /\ content' = content
    /\ UNCHANGED <<pc, prompt, locals, result, overall, invoked, calls,
                   returned>>
    /\ UNCHANGED <<waiting, catalog, applied, argv, stdin, disk, environ, source, console,
                   exit_status, echoed, enhancement, api_key, provider, model>>

\* Faulty variant of BuildEnhancement: the enhancer writes the improved
\* prompt into the result's suggestions.
BuildEnhancementIntoResult ==
    /\ cli_pc = "parse"
    /\ LET parsed == _parse_enhancement_response(content[1])
       IN  /\ enhancement' = <<[improved_prompt |-> parsed[1],
                                explanation |-> parsed[2],
                                provider |-> provider[1],
                                model |-> model[1]]>>
           /\ result' = [result EXCEPT !.suggestions = <<parsed[1]>>]
    /\ cli_pc' = "render"
    /\ UNCHANGED <<pc, prompt, locals, overall, invoked, calls, returned>>
    /\ UNCHANGED <<waiting, catalog, applied, argv, stdin, disk, environ, source, console,
                   exit_status, echoed, api_key, provider, model, content,
                   remote_calls, raised>>

\* improved, explanation = _parse_enhancement_response(content); return
\* EnhancementResult(...); back in analyze_cmd: enhancement = ...
BuildEnhancement ==
    /\ cli_pc = "parse"
    /\ LET parsed == _parse_enhancement_response(content[1])
       IN  enhancement' = <<[improved_prompt |-> parsed[1],
                             explanation |-> parsed[2],
                             provider |-> provider[1],
                             model |-> model[1]]>>
    /\ cli_pc' = "render"
    /\ UNCHANGED <<pc, prompt, locals, result, overall, invoked, calls,
                   returned>>
    /\ UNCHANGED <<waiting, catalog, applied, argv, stdin, disk, environ, source, console,
                   exit_status, echoed, api_key, provider, model, content,
                   remote_calls, raised>>

\* except EnhancerError as e: console.print("Enhancement skipped: ...")
SkipEnhancement ==
    /\ cli_pc = "raised"
    /\ raised[1].kind = "EnhancerError"
    /\ console' = Append(console, "Enhancement skipped")
    /\ cli_pc' = "render"
    /\ UNCHANGED <<pc, prompt, locals, result, overall, invoked, calls,
                   returned>>
    /\ UNCHANGED <<waiting, catalog, applied, argv, stdin, disk, environ, source, exit_status,
                   echoed, enhancement, api_key, provider, model, content,
                   remote_calls, raised>>

\* An exception that is no EnhancerError finds no except clause in
\* analyze_cmd: the command ends with a traceback, nothing is rendered.
Abort ==
    /\ cli_pc = "raised"
    /\ raised[1].kind # "EnhancerError"
    /\ exit_status' = "Traceback"
    /\ cli_pc' = "exited"
    /\ UNCHANGED <<pc, prompt, locals, result, overall, invoked, calls,
                   returned>>
    /\ UNCHANGED <<waiting, catalog, applied, argv, stdin, disk, environ, source, console,
                   echoed, enhancement, api_key, provider, model, content,
                   remote_calls, raised>>

\* if output_json: click.echo(render_json(result, enhancement)) elif
\* output_md: ... else: render_text(...).  Each renderer reads the result
\* and its overall_score; what it shows is kept, not how it lays it out.
Render ==
    /\ cli_pc = "render"
    /\ \E s \in overall_score(result.dimensions) :
          /\ overall' = {s}
          /\ echoed' = <<[format |-> IF argv.output_json THEN "json"
                                     ELSE IF argv.output_md THEN "markdown"
                                     ELSE "text",
                          result |-> result,
                          overall_score |-> s,
                          enhancement |-> enhancement]>>
    /\ exit_status' = "0"
    /\ cli_pc' = "exited"
    /\ UNCHANGED <<pc, prompt, locals, result, invoked, calls, returned>>
    /\ UNCHANGED <<waiting, catalog, applied, argv, stdin, disk, environ, source, console,
                   enhancement, api_key, provider, model, content,
                   remote_calls, raised>>

\* The steps of analyze(prompt) are those of Analyze but for ReturnEmpty:
\* the command has exited on a blank prompt, so the call made here never
\* takes the early return.
NextCli ==
    \/ ReadPrompt
    \/ CheckEmpty
    \/ Call
    \/ LowerText
    \/ ScoreDimensions
    \/ DetectAntiPatterns
    \/ GenerateSuggestions
    \/ Return
    \/ AnalyzeReturned
    \/ Enhance
    \/ ImportProvider
    \/ ConstructClient
    \/ RemoteCall
    \/ BuildEnhancement
    \/ SkipEnhancement
    \/ Abort
    \/ Render

SpecCli == InitCli /\ [][NextCli]_vars

(***************************************************************************)
(* The JSON report of a result, written and read back.                     *)
(***************************************************************************)
InitJson == InitWith(PromptsOf(JsonPieces))

\* render_json(result, enhancement), for a result analyze returned or one
\* built with its defaults, without and with an enhancement.
RenderJson ==
    /\ pc \in {"returned", "constructed"}
    /\ fn = ""
    /\ fn' = "render_json"
    /\ \E e \in {<<>>,
                 <<[improved_prompt |-> "Say \"why\".\nList three risks.",
                    explanation |-> "It is clearer.",
                    provider |-> "openai", model |-> "gpt-4o-mini"]>>} :
       \E s \in overall_score(result.dimensions) :
          /\ overall = {} \/ overall = {s}
          /\ overall' = {s}
          /\ arg' = <<result, e>>
          /\ out' = <<render_json(result, s, e)>>
    /\ UNCHANGED <<pc, prompt, locals, result, invoked, calls, returned, cli,
                   waiting, catalog>>

\* json.loads(...) of what render_json returned
LoadJson ==
    /\ fn = "render_json"
    /\ Len(out) = 1
    /\ out' = Append(out, json_loads(out[1]))
    /\ UNCHANGED <<pc, prompt, locals, result, overall, invoked, calls,
                   returned, fn, arg, cli, waiting,
                   catalog>>

NextJson == Analyze \/ Construct \/ RenderJson \/ LoadJson

SpecJson == InitJson /\ [][NextJson]_vars

(***************************************************************************)
(* analyze called from several threads.  Each thread runs the statements   *)
(* of analyze on its own locals; the interpreter may switch from the       *)
(* running thread to another between any two statements.                   *)
(***************************************************************************)
\* analyze(prompt) run from its first statement to its return, alone.
analyze(p) ==
    LET t == Strip(p)
        tl == Lower(t)
        dims == <<_score_clarity(t, tl), _score_structure(t, tl),
                  _score_specificity(t, tl), _score_length(t)>>
        aps == _detect_anti_patterns(t, tl)
    IN  IF t = ""
        THEN AnalysisResult(p,
                <<DimensionScore("Clarity", 10, "Empty prompt"),
                  DimensionScore("Structure", 10, "Empty prompt"),
                  DimensionScore("Specificity", 10, "Empty prompt"),
                  DimensionScore("Length", 10, "0 words")>>,
                <<>>,
                <<"Provide a non-empty prompt to analyze.">>,
                0, 0)
        ELSE AnalysisResult(t, dims, aps, _generate_suggestions(dims, aps),
                            _count_words(t), _count_sentences(t))

InitThreads ==
    /\ Fresh({"", "Improve this make it good", "As a report, we need "})
    /\ AppliedIdle
    /\ CliIdle
    /\ waiting \in [1..(MaxThreads - 1) ->
                      [pc : {"idle"},
                       prompt : {"", "Improve this make it good",
                                 "As a report, we need "},
                       text : {""}, text_lower : {""}, dimensions : {<<>>},
                       anti_patterns : {<<>>}, suggestions : {<<>>},
                       result : {NoResult}, invoked : {{}}]]
    /\ catalog = PatternModule

\* Faulty variant of Switch: the list of detected anti-patterns belongs to
\* the module, not to the call, so the thread that resumes finds the list of
\* the thread that ran before it.
SwitchSharingDetected ==
    /\ waiting # <<>>
    /\ \E k \in 1..Len(waiting) :
          /\ pc' = waiting[k].pc
          /\ prompt' = waiting[k].prompt
          /\ text' = waiting[k].text
          /\ text_lower' = waiting[k].text_lower
          /\ dimensions' = waiting[k].dimensions
          /\ anti_patterns' = anti_patterns
          /\ suggestions' = waiting[k].suggestions
          /\ result' = waiting[k].result
          /\ invoked' = waiting[k].invoked
          /\ waiting' = [waiting EXCEPT ![k] =
                [pc |-> pc, prompt |-> prompt, text |-> text,
                 text_lower |-> text_lower, dimensions |-> dimensions,
                 anti_patterns |-> anti_patterns,
                 suggestions |-> suggestions, result |-> result,
                 invoked |-> invoked]]
    /\ UNCHANGED <<overall, calls, returned, applied, cli, catalog>>

\* The interpreter suspends the running thread and resumes another one:
\* each thread finds its own frame as it left it.
Switch ==
    /\ waiting # <<>>
    /\ \E k \in 1..Len(waiting) :
          /\ pc' = waiting[k].pc
          /\ prompt' = waiting[k].prompt
          /\ text' = waiting[k].text
          /\ text_lower' = waiting[k].text_lower
          /\ dimensions' = waiting[k].dimensions
          /\ anti_patterns' = waiting[k].anti_patterns
          /\ suggestions' = waiting[k].suggestions
          /\ result' = waiting[k].result
          /\ invoked' = waiting[k].invoked
          /\ waiting' = [waiting EXCEPT ![k] =
                [pc |-> pc, prompt |-> prompt, text |-> text,
                 text_lower |-> text_lower, dimensions |-> dimensions,
                 anti_patterns |-> anti_patterns,
                 suggestions |-> suggestions, result |-> result,
                 invoked |-> invoked]]
    /\ UNCHANGED <<overall, calls, returned, applied, cli, catalog>>

NextThreads == Analyze \/ Switch

SpecThreads == InitThreads /\ [][NextThreads]_vars

(***************************************************************************)
(* analyze on prompts with and without the signals of the two patterns     *)
(* that are detected by their regexes and keywords.                        *)
(***************************************************************************)
\* A start, with or without a verb and a pronoun, and a phrase that a
\* regex, a keyword, both or neither of them find.
InitSignals ==
    InitWith({lead \o phrase :
                 lead \in {"", " fix it: ", "Please fix it, ", "Improve this ",
                           "EDIT\nTHAT. ", "Fix items and "},
                 phrase \in {"", "make it good", "unmake it good",
                             "Be creative, you decide", "Do  your best",
                             "do something about whatever you think"}})

SpecSignals == InitSignals /\ [][Next]_vars

(***************************************************************************)
(* The length score of long texts: analyze's strip of the prompt and its   *)
(* call of _score_length, for prompts of a given number of words.          *)
(***************************************************************************)
\* n times the string s.
RECURSIVE Repeat(_, _)
Repeat(s, n) ==
    IF n = 0 THEN ""
    ELSE LET half == Repeat(s, n \div 2)
         IN  half \o half \o (IF n % 2 = 1 THEN s ELSE "")

\* The prompts: a number of words, each with the same blanks behind it, so
\* that the prompt ends in blanks that the strip removes.
InitLength ==
    /\ Fresh({""})
    /\ CliIdle
    /\ waiting = <<>>
    /\ catalog = PatternModule
    /\ fn = "_score_length"
    /\ arg \in {[words |-> n, prompt |-> Repeat(word \o blanks, n)] :
                    n \in 1..MaxWords, word \in {"a", "9.5"},
                    blanks \in {" ", "\n\t"}}
    /\ out = <<>>

\* text = prompt.strip(); _score_length(text)
ScoreLength ==
    /\ fn = "_score_length"
    /\ out = <<>>
    /\ out' = <<_score_length(Strip(arg.prompt))>>
    /\ UNCHANGED <<pc, prompt, locals, result, overall, invoked, calls,
                   returned, fn, arg, cli, waiting,
                   catalog>>

SpecLength == InitLength /\ [][ScoreLength]_vars

(***************************************************************************)
(* analyze on prompts that hold, or lack, what each of the scoring         *)
(* functions looks for.                                                    *)
(***************************************************************************)
\* Two families of prompts.  The first puts together a start (none, a verb
\* with a pronoun, a verb of the task estimate only, a verb of the structure
\* score only), a role, a context and an output format, each there or not.
\* The second puts together a start (none, a verb with a pronoun, or a role
\* with a context and an output format), a vague phrase with one, two or
\* three hits, constraints with one, three or six keywords, an example, and up to
\* MaxItems list items.
InitScorers ==
    InitWith(
        {start \o role \o ctx \o format :
            start \in {"", "Fix it. ", "Help me ", "Tell me: ", "Draft "},
            role \in {"", "You are a vet. "},
            ctx \in {"", "The goal is clear. "},
            format \in {"", "Respond in yaml. "}}
        \cup
        {start \o vague \o limits \o example \o Repeat("\n- 7 g", items) :
            start \in {"", "Fix it. ",
                       "You are a vet. The goal is clear. Respond in yaml. "},
            vague \in {"", "You decide. ", "Do your best. ",
                       "Do your best, be creative. "},
            limits \in {"", "Avoid slang. ", "Be concise, never casual. ",
                        "Always keep it formal, within limits, at most terse. "},
            example \in {"", "Such as: hello. "},
            items \in 0..MaxItems})

SpecScorers == InitScorers /\ [][Next]_vars

(***************************************************************************)
(* Properties of analyze and of the result it returns.                     *)
(***************************************************************************)
\* C1: for every prompt whose trimmed text is not empty, analyze returns the
\* four dimension scores Clarity, Structure, Specificity and Length, each
\* within [1.0, 10.0], and the overall score read from the result is within
\* [1.0, 10.0] too.
ScoresInRange ==
    (pc = "returned" /\ \E i \in 1..Len(prompt) : Char(prompt, i) \notin SpaceSet) =>
        /\ [k \in 1..Len(result.dimensions) |-> result.dimensions[k].name]
               = <<"Clarity", "Structure", "Specificity", "Length">>
        /\ \A k \in 1..Len(result.dimensions) :
               result.dimensions[k].score \in 10..100
        /\ overall \subseteq 10..100

\* A prompt whose clarity would fall below 1.0 without the clamp has been
\* analyzed and its overall score read.
ScoresInRangeWitness ==
    /\ pc = "returned"
    /\ prompt = "Improve this make it good"
    /\ result.dimensions[1].score = 10
    /\ overall = {22}

\* C2: for every empty or blank prompt, analyze returns exactly four
\* dimensions, all scored 1.0 (so the overall score is 1.0), no anti-pattern,
\* the one suggestion "Provide a non-empty prompt to analyze.", word count 0
\* and sentence count 0, and does not run the detector.
EmptyPromptResult ==
    (pc = "returned" /\ \A i \in 1..Len(prompt) : Char(prompt, i) \in SpaceSet) =>
        /\ Len(result.dimensions) = 4
        /\ \A k \in 1..Len(result.dimensions) : result.dimensions[k].score = 10
        /\ overall_score(result.dimensions) = {10}
        /\ overall \subseteq {10}
        /\ result.anti_patterns = <<>>
        /\ result.suggestions = <<"Provide a non-empty prompt to analyze.">>
        /\ result.word_count = 0
        /\ result.sentence_count = 0
        /\ "_detect_anti_patterns" \notin invoked

\* A blank prompt of two line breaks has been analyzed and its overall score
\* read.
EmptyPromptWitness ==
    /\ pc = "returned"
    /\ prompt = "\n\n"
    /\ result.suggestions = <<"Provide a non-empty prompt to analyze.">>
    /\ overall = {10}

\* C3: analyze never ends in an error: every call, whatever the string, goes
\* on until it returns, and what it returns is an AnalysisResult.
AnalyzeAlwaysReturns ==
    /\ [](pc = "returned" =>
            /\ DOMAIN result = {"prompt", "dimensions", "anti_patterns",
                                "suggestions", "word_count", "sentence_count"}
            /\ Len(result.dimensions) = 4
            /\ result.word_count >= 0
            /\ result.sentence_count >= 1 \/ result.word_count = 0)
    /\ (pc = "stripped") ~> (pc = "returned")

\* A prompt of nothing but question marks, which splits into no sentence at
\* all, has been analyzed.
AnalyzeAlwaysReturnsWitness ==
    /\ pc = "returned"
    /\ prompt = "???"
    /\ result.word_count = 1
    /\ result.sentence_count = 1

\* C4: analyze is deterministic and stateless: any two completed calls with
\* the same prompt, whatever was analyzed between them, returned the same
\* result (dimension scores and details, anti-patterns and their evidence,
\* suggestions, counts).
SameInputSameResult ==
    \A i, j \in 1..Len(returned) :
        returned[i].prompt = returned[j].prompt =>
            returned[i].result = returned[j].result

\* A prompt with detected anti-patterns was analyzed, then another prompt,
\* then the first one again.
SameInputSameResultWitness ==
    /\ Len(returned) = 3
    /\ returned[1].prompt = "Write it. Also help me\nand can you also fix"
    /\ returned[2].prompt = Interleaved
    /\ returned[3].prompt = returned[1].prompt
    /\ returned[1].result.anti_patterns # <<>>

SuggestionsBySeverity ==
    (pc = "returned" /\ result.anti_patterns # <<>>) =>
        LET aps == result.anti_patterns
            ordered ==
                SelectSeq(aps, LAMBDA d : d.pattern.severity = "high")
                \o SelectSeq(aps, LAMBDA d : d.pattern.severity = "medium")
                \o SelectSeq(aps, LAMBDA d : d.pattern.severity = "low")
                \o SelectSeq(aps, LAMBDA d :
                                d.pattern.severity \notin {"high", "medium", "low"})
        IN  /\ Len(result.suggestions) = Len(ordered)
            /\ \A k \in 1..Len(ordered) :
                   result.suggestions[k] = ordered[k].pattern.suggestion

\* All eight anti-patterns were detected: the suggestions start with that of
\* missing_context and end with that of no_examples.
SuggestionsBySeverityWitness ==
    /\ pc = "returned"
    /\ Len(result.anti_patterns) = 8
    /\ Len(result.suggestions) = 8
    /\ result.suggestions[1] = MISSING_CONTEXT.suggestion
    /\ result.suggestions[8] = NO_EXAMPLES.suggestion

\* C7: the detected anti-patterns are a subsequence of the catalog of eight
\* in declaration order: between 0 and 8 entries, each a catalog pattern, and
\* each later in the catalog than the entry before it (so no id twice, and
\* catalog order rather than severity order).
DetectedInCatalogOrder ==
    pc = "returned" =>
        LET aps == result.anti_patterns
            Pos(d) == {k \in 1..Len(ALL_PATTERNS) : ALL_PATTERNS[k].id = d.pattern.id}
        IN  /\ Len(ALL_PATTERNS) = 8
            /\ Len(aps) \in 0..8
            /\ \A i \in 1..Len(aps) :
                   /\ Pos(aps[i]) # {}
                   /\ \A k \in Pos(aps[i]) : ALL_PATTERNS[k] = aps[i].pattern
            /\ \A i, j \in 1..Len(aps) :
                   i < j => \A a \in Pos(aps[i]), b \in Pos(aps[j]) : a < b

\* All eight anti-patterns were detected, a medium one before a high one and
\* a low one before a medium one.
DetectedInCatalogOrderWitness ==
    /\ pc = "returned"
    /\ Len(result.anti_patterns) = 8
    /\ result.anti_patterns[1].pattern.severity = "medium"
    /\ result.anti_patterns[3].pattern.severity = "high"
    /\ result.anti_patterns[5].pattern.severity = "low"
    /\ result.anti_patterns[6].pattern.severity = "medium"

\* C8: each of missing_role, missing_output_format, missing_context,
\* no_constraints and no_examples is detected if and only if no keyword of
\* its bank is a substring of the lowercased trimmed prompt, and its evidence
\* is a fixed string.
AbsenceDetection ==
    pc = "detected" =>
        \A row \in {<<"missing_role", ROLE_KEYWORDS,
                      "No role or persona assignment found">>,
                    <<"missing_output_format", OUTPUT_FORMAT_KEYWORDS,
                      "No output format specification found">>,
                    <<"missing_context", CONTEXT_SIGNALS,
                      "No contextual background found">>,
                    <<"no_constraints", CONSTRAINT_KEYWORDS,
                      "No constraint or boundary keywords found">>,
                    <<"no_examples", EXAMPLE_KEYWORDS,
                      "No example or sample output found">>} :
            LET hits == {k \in 1..Len(row[2]) :
                            Contains(Lower(Strip(prompt)), row[2][k])}
                found == {i \in 1..Len(anti_patterns) :
                             anti_patterns[i].pattern.id = row[1]}
            IN  /\ (found # {}) <=> (hits = {})
                /\ \A i \in found : anti_patterns[i].evidence = row[3]

\* The detector has run on a prompt with role, output format and context
\* keywords and neither constraints nor examples.
AbsenceDetectionWitness ==
    /\ pc = "detected"
    /\ prompt = "As a report, we need "
    /\ [i \in 1..Len(anti_patterns) |-> anti_patterns[i].pattern.id]
           = <<"no_constraints", "no_examples">>

OverallIsWeightedMean ==
    \A o \in overall :
        LET dims == result.dimensions
            Of(name) == {dims[k].score : k \in {i \in 1..Len(dims) : dims[i].name = name}}
        IN  IF dims = <<>> THEN o = 0 /\ overall_label(o) = "Poor"
            ELSE \A c \in Of("Clarity"), st \in Of("Structure"),
                    sp \in Of("Specificity"), l \in Of("Length") :
                     LET hundredfold == 30 * c + 25 * st + 25 * sp + 20 * l
                     IN  /\ 100 * o - hundredfold <= 50
                         /\ hundredfold - 100 * o <= 50

\* The overall score of a result with four different dimension scores, whose
\* weighted mean 7.225 is no multiple of 0.1, has been read.
OverallIsWeightedMeanWitness ==
    /\ pc = "returned"
    /\ [k \in 1..Len(result.dimensions) |-> result.dimensions[k].score]
           = <<70, 75, 82, 60>>
    /\ overall = {72}
\* C11: a dimension's label and the overall label are the same function of
\* the score: Excellent from 8, Good from 6, Fair from 4, Weak from 2, Poor
\* below; each score has the one label whose range it falls in, and a higher
\* score never has a lower label.
LabelsByThreshold ==
    (fn = "label" /\ out # <<>>) =>
        LET floor == [Excellent |-> 80, Good |-> 60, Fair |-> 40,
                      Weak |-> 20, Poor |-> 0]
            Labels == DOMAIN floor
            InRange(s, L) ==
                /\ s >= floor[L]
                /\ \A M \in Labels : floor[M] > floor[L] => s < floor[M]
        IN  /\ out[1] \in Labels /\ out[3] \in Labels
            /\ out[2] = out[1] /\ out[4] = out[3]
            /\ \A L \in Labels : (out[1] = L) <=> InRange(arg[1], L)
            /\ \A L \in Labels : (out[3] = L) <=> InRange(arg[2], L)
            /\ arg[1] <= arg[2] => floor[out[1]] <= floor[out[3]]

LabelsByThresholdWitness ==
    /\ fn = "label"
    /\ arg = <<59, 60>>
    /\ out = <<"Fair", "Fair", "Good", "Good">>

GenericDetection ==
    pc \in {"detected", "composed"} =>
        \A ap \in {VAGUE_LANGUAGE, AMBIGUOUS_PRONOUNS} :
            LET rs == ap.positive_signals
                kws == ap.keyword_signals
                RegexHits == {r \in 1..Len(rs) : Matches(text, rs[r])}
                KeywordHits == {k \in 1..Len(kws) :
                                   Contains(text_lower, kws[k])}
                Found == {j \in 1..Len(anti_patterns) :
                             anti_patterns[j].pattern.id = ap.id}
                Evidence == anti_patterns[Least(Found)].evidence
            IN  /\ Cardinality(Found) <= 1
                /\ (Found # {}) <=> (RegexHits # {} \/ KeywordHits # {})
                /\ RegexHits # {} =>
                      Evidence = "Matched: \""
                                 \o MatchGroup(text, rs[Least(RegexHits)])
                                 \o "\""
                /\ (RegexHits = {} /\ KeywordHits # {}) =>
                      Evidence = "Contains: \"" \o kws[Least(KeywordHits)]
                                 \o "\""
                /\ (ap.id = "ambiguous_pronouns" /\ Found # {}) =>
                      \E verb \in {"fix", "improve", "change", "update",
                                    "rewrite", "edit", "modify"} :
                      \E pronoun \in {"it", "this", "that"} :
                      \E n \in 1..Len(text) :
                          /\ At(text_lower, 1, verb)
                          /\ \A i \in (Len(verb) + 1)..(Len(verb) + n) :
                                IsSpaceAt(text, i)
                          /\ At(text_lower, Len(verb) + n + 1, pronoun)
                          /\ ~IsWordAt(text, Len(verb) + n + Len(pronoun) + 1)

\* A text in which the second regex of vague_language matches before the
\* first one does, and which starts with a verb and a pronoun.
GenericDetectionWitness ==
    /\ pc = "detected"
    /\ text = "Improve this make it good"
    /\ \E j \in 1..Len(anti_patterns) :
          /\ anti_patterns[j].pattern.id = "vague_language"
          /\ anti_patterns[j].evidence = "Matched: \"make it good\""
    /\ \E j \in 1..Len(anti_patterns) :
          /\ anti_patterns[j].pattern.id = "ambiguous_pronouns"
          /\ anti_patterns[j].evidence = "Matched: \"Improve this\""

(***************************************************************************)
(* Properties of the command and of the enhancer.                          *)
(***************************************************************************)
\* C12 as stated: the prompt comes from one source, argument before file
\* before stdin: an argument that was supplied is the prompt whatever --file
\* and stdin hold, the file is read only when no argument was supplied, and
\* stdin only when neither an argument nor --file was supplied.
PromptSourcePrecedence ==
    cli_pc \notin {"off", "start"} =>
        /\ argv.prompt_text # <<>> =>
              source = "argument" /\ prompt = argv.prompt_text[1]
        /\ source = "file" =>
              argv.prompt_text = <<>> /\ argv.file # <<>>
        /\ source = "stdin" =>
              argv.prompt_text = <<>> /\ argv.file = <<>>
        /\ (console # <<>> /\ console[1] \in {"File not found",
                                                "Could not read file"}) =>
              argv.prompt_text = <<>>

\* C13: the command ends with exit code 1 and a message, analyze is never
\* called and no report is rendered, when the prompt it resolved is empty or
\* blank, when the file it was to read is missing or unreadable, or when it
\* has no source to read.
ExitOneWithoutAnalysis ==
    cli_pc # "off" =>
        LET Given(x) == x # <<>> /\ x[1] # ""
            Blank == source # "" /\ Strip(prompt) = ""
            Unreadable == /\ ~Given(argv.prompt_text)
                          /\ Given(argv.file)
                          /\ disk.state \in {"missing", "unreadable"}
            NoSource == /\ ~Given(argv.prompt_text)
                        /\ ~Given(argv.file)
                        /\ stdin.isatty
            Message == IF Blank THEN "Prompt is empty."
                       ELSE IF NoSource THEN "No prompt provided."
                       ELSE IF disk.state = "missing" THEN "File not found"
                       ELSE "Could not read file"
        IN  (Blank \/ Unreadable \/ NoSource) =>
                /\ calls = 0 /\ pc = "uncalled" /\ result = NoResult
                /\ echoed = <<>>
                /\ remote_calls = <<>>
                /\ cli_pc \in {"start", "read", "exited"}
                /\ cli_pc = "exited" =>
                      /\ exit_status = "SystemExit(1)"
                      /\ console = <<Message>>

ExitOneWithoutAnalysisWitness ==
    /\ cli_pc = "exited"
    /\ source = "file"
    /\ prompt = "\n"
    /\ exit_status = "SystemExit(1)"
    /\ console = <<"Prompt is empty.">>

\* C14 as stated: with --enhance, whatever the enhancer raised, the command
\* prints the warning, goes on without an enhancement and renders the report
\* in the selected format: it does not end because of the enhancer.
EnhancerFailureIsCaught ==
    (raised # <<>> /\ cli_pc = "exited") =>
        /\ exit_status = "0"
        /\ console = <<"Enhancement skipped">>
        /\ echoed # <<>>
        /\ echoed[1].enhancement = <<>>
        /\ echoed[1].result = returned[1].result
        /\ echoed[1].format = (IF argv.output_json THEN "json"
                               ELSE IF argv.output_md THEN "markdown"
                               ELSE "text")

\* C15: the enhancer is entered only after analyze has returned its result,
\* and the result the renderer is given is that result, scores,
\* anti-patterns and suggestions as analyze returned them.
AnalysisBeforeEnhancement ==
    /\ (api_key # <<>> \/ cli_pc \in {"enhance", "import", "client", "call",
                                       "parse", "raised", "render"}) =>
          /\ pc = "returned"
          /\ Len(returned) = 1
          /\ returned[1].prompt = prompt
          /\ result = returned[1].result
    /\ echoed # <<>> =>
          /\ echoed[1].result = returned[1].result
          /\ echoed[1].overall_score \in
                overall_score(returned[1].result.dimensions)

AnalysisBeforeEnhancementWitness ==
    /\ echoed # <<>>
    /\ echoed[1].enhancement # <<>>
    /\ remote_calls # <<>>
    /\ echoed[1].result.suggestions # <<>>

\* C16: enhance raises EnhancerError when no credential is configured, when
\* the provider is neither "openai" nor "anthropic", and when the remote call
\* fails; in the first two cases no remote call is made; a provider that is
\* not configured is "openai".
EnhanceErrors ==
    api_key # <<>> =>
        LET NoKey == \/ environ.PROMPTLAB_API_KEY = <<>>
                     \/ Strip(environ.PROMPTLAB_API_KEY[1]) = ""
            Named == IF environ.PROMPTLAB_PROVIDER = <<>> THEN "openai"
                     ELSE Strip(Lower(environ.PROMPTLAB_PROVIDER[1]))
            Fails == raised # <<>> /\ raised[1].kind = "EnhancerError"
        IN  /\ NoKey =>
                  Fails /\ remote_calls = <<>> /\ enhancement = <<>>
            /\ Named \notin {"openai", "anthropic"} =>
                  Fails /\ remote_calls = <<>> /\ enhancement = <<>>
            /\ (remote_calls # <<>> /\ content = <<>>) =>
                  Fails /\ enhancement = <<>>
            /\ (~NoKey /\ environ.PROMPTLAB_PROVIDER = <<>>) =>
                  /\ provider = <<"openai">>
                  /\ \A k \in 1..Len(remote_calls) :
                        remote_calls[k].provider = "openai"
            /\ Len(remote_calls) <= 1

EnhanceErrorsWitness ==
    /\ environ.PROMPTLAB_API_KEY = <<"sk-1 ">>
    /\ environ.PROMPTLAB_PROVIDER = <<"cohere">>
    /\ raised = <<[kind |-> "EnhancerError", message |-> "Unknown provider"]>>
    /\ cli_pc = "exited"

(***************************************************************************)
(* Properties of the JSON report.                                          *)
(***************************************************************************)
\* C18: the document render_json writes, read back, has the overall score
\* of the result, as many dimensions, anti-patterns and suggestions as the
\* result and in the same order, and an "enhancement" member exactly when an
\* enhancement was given.
JsonRoundTrip ==
    (fn = "render_json" /\ Len(out) = 2) =>
        LET res == arg[1]
            doc == out[2]
        IN  /\ overall = {doc.overall_score}
            /\ doc.overall_score \in overall_score(res.dimensions)
            /\ Len(doc.dimensions) = Len(res.dimensions)
            /\ \A k \in 1..Len(res.dimensions) :
                  /\ doc.dimensions[k].name = res.dimensions[k].name
                  /\ doc.dimensions[k].score = res.dimensions[k].score
            /\ Len(doc.anti_patterns) = Len(res.anti_patterns)
            /\ \A k \in 1..Len(res.anti_patterns) :
                  /\ doc.anti_patterns[k].id = res.anti_patterns[k].pattern.id
                  /\ doc.anti_patterns[k].evidence = res.anti_patterns[k].evidence
            /\ doc.suggestions = res.suggestions
            /\ ("enhancement" \in DOMAIN doc) <=> (arg[2] # <<>>)

JsonRoundTripWitness ==
    /\ fn = "render_json"
    /\ Len(out) = 2
    /\ arg[2] # <<>>
    /\ out[2].enhancement.improved_prompt = "Say \"why\".\nList three risks."
    /\ out[2].overall_score % 10 # 0
    /\ Len(out[2].anti_patterns) >= 5
    /\ Len(out[2].suggestions) >= 5

(***************************************************************************)
(* Properties of concurrent calls.                                         *)
(***************************************************************************)
\* C19: however the threads are interleaved, every call of analyze returns
\* the result the same call returns when it runs alone, and the pattern
\* catalog and the keyword banks stay as they were created.
ConcurrentCallsDoNotInterfere ==
    /\ \A k \in 1..Len(returned) :
          returned[k].result = analyze(returned[k].prompt)
    /\ pc = "returned" => result = analyze(prompt)
    /\ \A k \in 1..Len(waiting) :
          waiting[k].pc = "returned" =>
              waiting[k].result = analyze(waiting[k].prompt)
    /\ catalog = PatternModule

ConcurrentCallsDoNotInterfereWitness ==
    /\ waiting # <<>>
    /\ Len(returned) = 2
    /\ returned[1].prompt = "Improve this make it good"
    /\ returned[2].prompt = "As a report, we need "
    /\ returned[1].result.anti_patterns # returned[2].result.anti_patterns
    /\ \E k \in 1..Len(waiting) :
          /\ waiting[k].pc = "returned"
          /\ waiting[k].prompt = "As a report, we need "
    /\ pc = "returned"


(***************************************************************************)
(* Properties of the four scoring functions.                               *)
(***************************************************************************)
\* C21: the Length score depends only on the word count w of the trimmed
\* text: 2.0 for w < 5, 4.0 for w < 10, 6.0 for w < 20,
\* 8.0 + min(2.0, (w - 20) / 140) for 20 <= w <= 300, 7.0 for 301..500, and
\* max(3.0, 7.0 - (w - 500) / 200) beyond, each rounded to one decimal (the
\* score is the tenth, or one of the two tenths, nearest to the value); so it
\* is never below 2.0 for a non-empty prompt and never above 10.0.
LengthByWordCount ==
    (fn = "_score_length" /\ out # <<>>) =>
        LET w == arg.words
            s == out[1].score
            \* s is x = num / den, in tenths, rounded to a whole tenth
            Rounded(num, den) ==
                /\ 2 * (s * den - num) <= den
                /\ 2 * (num - s * den) <= den
        IN  /\ out[1].name = "Length"
            /\ w < 5 => s = 20
            /\ (5 <= w /\ w < 10) => s = 40
            /\ (10 <= w /\ w < 20) => s = 60
            /\ (20 <= w /\ w <= 300) =>
                  Rounded(80 * 14 + Min(20 * 14, w - 20), 14)
            /\ (301 <= w /\ w <= 500) => s = 70
            /\ w > 500 => Rounded(Max(30 * 20, 70 * 20 - (w - 500)), 20)
            /\ s >= 20
            /\ s <= 100

\* A prompt of 1301 words, one beyond the count at which the decay reaches
\* 3.0, has been scored, at the floor.
LengthByWordCountWitness ==
    /\ fn = "_score_length"
    /\ arg.words = 1301
    /\ out # <<>>
    /\ out[1].score = 30
    /\ out[1].details = "1301 words -- quite long, risk of losing focus"


\* C22: the Clarity score is 7.0, minus the vague penalty (4.0 flat for three
\* or more vague hits, 2.0 times the hits for one or two, a hit being a vague
\* regex that matches or a vague keyword that occurs), minus the shortness
\* penalty (3.0 below 5 words, else 1.5 below 10), plus 1.0 for two or more
\* numeric tokens, minus 1.5, once, for a text that starts with an imperative
\* verb followed by it, this or that; the whole clamped to [1.0, 10.0].
ClarityByPenalties ==
    pc \in {"scored", "detected", "composed"} =>
        LET regexes == VAGUE_LANGUAGE.positive_signals
            keywords == VAGUE_LANGUAGE.keyword_signals
            hits == Cardinality({k \in 1..Len(regexes) : Matches(text, regexes[k])})
                    + Cardinality({k \in 1..Len(keywords) :
                                      Contains(text_lower, keywords[k])})
            w == _count_words(text)
            numeric == CountNumbers(text)
            VerbThenPronoun ==
                \E verb \in {"fix", "improve", "change", "update", "rewrite",
                              "edit", "modify"} :
                \E pronoun \in {"it", "this", "that"} :
                \E n \in 1..Len(text) :
                    /\ At(text_lower, 1, verb)
                    /\ \A i \in (Len(verb) + 1)..(Len(verb) + n) :
                          IsSpaceAt(text, i)
                    /\ At(text_lower, Len(verb) + n + 1, pronoun)
                    /\ ~IsWordAt(text, Len(verb) + n + Len(pronoun) + 1)
            vague == IF hits >= 3 THEN 40 ELSE 20 * hits
            short == IF w < 5 THEN 30 ELSE IF w < 10 THEN 15 ELSE 0
            raw == 70 - vague - short
                   + (IF numeric >= 2 THEN 10 ELSE 0)
                   - (IF VerbThenPronoun THEN 15 ELSE 0)
        IN  /\ dimensions[1].name = "Clarity"
            /\ dimensions[1].score =
                  (IF raw < 10 THEN 10 ELSE IF raw > 100 THEN 100 ELSE raw)

\* A text of sixteen words with one vague hit, a keyword, that starts with
\* a verb and a pronoun and holds two numbers: 7.0 - 2.0 + 1.0 - 1.5.
ClarityByPenaltiesWitness ==
    /\ pc = "scored"
    /\ text = "Fix it. You decide. Be concise, never casual. \n- 7 g\n- 7 g"
    /\ dimensions[1].score = 45
    /\ dimensions[1].details =
          "1 vague phrase(s) detected; Contains numeric specifics; Starts with an ambiguous pronoun reference"


\* C23: the Structure score is 2.5 times the number of components present
\* among a role keyword, a context keyword, at least one task verb and an
\* output-format keyword, clamped to [1.0, 10.0], so that it is one of 1.0,
\* 2.5, 5.0, 7.5 and 10.0; the detail text lists each of the four components
\* once, after "Has:" when it is present and after "Missing:" when it is not.
StructureByComponents ==
    pc \in {"scored", "detected", "composed"} =>
        LET Holds(keywords) ==
                \E k \in 1..Len(keywords) : Contains(text_lower, keywords[k])
            there == <<Holds(ROLE_KEYWORDS), Holds(CONTEXT_SIGNALS),
                       HasTaskVerb(text_lower), Holds(OUTPUT_FORMAT_KEYWORDS)>>
            has == <<"role", "context", "task", "output format">>
            lacks == <<"role/persona", "context/background", "clear task verb",
                       "output format">>
            n == Cardinality({c \in 1..4 : there[c]})
            List(names, wanted) ==
                Join(SelectSeq([c \in 1..4 |-> IF there[c] = wanted
                                                THEN names[c] ELSE ""],
                               LAMBDA x : x # ""), ", ")
            d == dimensions[2]
        IN  /\ d.name = "Structure"
            /\ d.score = (IF n = 0 THEN 10 ELSE 25 * n)
            /\ d.score \in {10, 25, 50, 75, 100}
            /\ d.details =
                  (IF n = 0 THEN "Missing: " \o List(lacks, FALSE)
                   ELSE IF n = 4 THEN "Has: " \o List(has, TRUE)
                   ELSE "Has: " \o List(has, TRUE)
                        \o ". Missing: " \o List(lacks, FALSE))

\* A text with a task verb and a role, and neither a context nor an output
\* format, has been scored 5.0.
StructureByComponentsWitness ==
    /\ pc = "scored"
    /\ text = "Draft You are a vet."
    /\ dimensions[2].score = 50
    /\ dimensions[2].details =
          "Has: role, task. Missing: context/background, output format"


\* C24 as stated: the Specificity score is 2.0, plus the constraint bonus
\* (3.0 for five or more distinct constraint keywords, 2.0 for two to four,
\* 1.0 for exactly one), plus 2.5 for an example keyword, plus the numeric
\* bonus (1.5 for three or more numeric tokens, 0.75 for one or two), plus
\* 1.0 for at least five non-blank lines, clamped to [1.0, 10.0]: the score
\* is that sum itself.
SpecificityIsTheSum ==
    pc \in {"scored", "detected", "composed"} =>
        LET hits == Cardinality({k \in 1..Len(CONSTRAINT_KEYWORDS) :
                        Contains(text_lower, CONSTRAINT_KEYWORDS[k])})
            example == \E k \in 1..Len(EXAMPLE_KEYWORDS) :
                           Contains(text_lower, EXAMPLE_KEYWORDS[k])
            numeric == CountNumbers(text)
            sum == 200
                   + (IF hits >= 5 THEN 300 ELSE IF hits >= 2 THEN 200
                      ELSE IF hits = 1 THEN 100 ELSE 0)
                   + (IF example THEN 250 ELSE 0)
                   + (IF numeric >= 3 THEN 150 ELSE IF numeric >= 1 THEN 75 ELSE 0)
                   + (IF CountLines(text) >= 5 THEN 100 ELSE 0)
            clamped == IF sum < 100 THEN 100 ELSE IF sum > 1000 THEN 1000 ELSE sum
        IN  10 * dimensions[3].score = clamped

\* C24, amended: the Specificity score is that sum, clamped to [1.0, 10.0]
\* and then rounded to one decimal; a sum that ends in .25 or .75 (one or two
\* numeric tokens) goes to the even tenth next to it: 2.75 to 2.8, 5.25 to 5.2.
SpecificityBySum ==
    pc \in {"scored", "detected", "composed"} =>
        LET hits == Cardinality({k \in 1..Len(CONSTRAINT_KEYWORDS) :
                        Contains(text_lower, CONSTRAINT_KEYWORDS[k])})
            example == \E k \in 1..Len(EXAMPLE_KEYWORDS) :
                           Contains(text_lower, EXAMPLE_KEYWORDS[k])
            numeric == CountNumbers(text)
            sum == 200
                   + (IF hits >= 5 THEN 300 ELSE IF hits >= 2 THEN 200
                      ELSE IF hits = 1 THEN 100 ELSE 0)
                   + (IF example THEN 250 ELSE 0)
                   + (IF numeric >= 3 THEN 150 ELSE IF numeric >= 1 THEN 75 ELSE 0)
                   + (IF CountLines(text) >= 5 THEN 100 ELSE 0)
            clamped == IF sum < 100 THEN 100 ELSE IF sum > 1000 THEN 1000 ELSE sum
            s == dimensions[3].score
        IN  /\ dimensions[3].name = "Specificity"
            /\ 10 * s - clamped \in -5..5
            /\ 10 * s - clamped \in {-5, 5} => s % 2 = 0
            /\ s \in 10..100

\* A text with an example and one numeric token on two lines has been
\* scored: 2.0 + 2.5 + 0.75 is 5.25, and the score is 5.2.
SpecificityBySumWitness ==
    /\ pc = "scored"
    /\ text = "Such as: hello. \n- 7 g"
    /\ dimensions[3].score = 52
    /\ dimensions[3].details = "No constraints detected; Includes examples"


\* C25: the task verbs of the Structure score include the verbs of the task
\* estimate, so that whenever the estimate counts at least one verb at the
\* start of a clause, the Structure score holds the task credit: the detail
\* text lists the task as present and the score is at least 2.5.
TaskEstimateVerbsEarnTaskCredit ==
    pc \in {"scored", "detected", "composed"} =>
        (CountTaskStarters(text) >= 1 =>
            /\ HasTaskVerb(text_lower)
            /\ ~Contains(dimensions[2].details, "clear task verb")
            /\ dimensions[2].score >= 25)


(***************************************************************************)
(* Properties of the result's prompt field and of the composer.            *)
(***************************************************************************)
\* C26: for every input, the prompt field of the result that analyze returns
\* is the prompt exactly as it was passed in; the word and sentence counts
\* are those of the trimmed text.
PromptFieldIsOriginal ==
    pc = "returned" =>
        /\ result.prompt = prompt
        /\ result.word_count = _count_words(Strip(prompt))

\* C27: the composer appends the encouragement exactly when no anti-pattern
\* gave a suggestion and none of the four dimension scores is below 6.0, and
\* it is then the only suggestion; in every other case the suggestions are
\* those of the detected patterns and nothing else, so that a prompt with no
\* detected anti-pattern and a dimension below 6.0 gets no suggestion at all.
EncouragementOnlyForStrongPrompts ==
    pc = "composed" =>
        LET low == \E k \in 1..Len(dimensions) : dimensions[k].score < 60
            encouraged == \E i \in 1..Len(suggestions) :
                              suggestions[i] = ENCOURAGEMENT
            OfPatterns == {anti_patterns[j].pattern.suggestion :
                              j \in 1..Len(anti_patterns)}
        IN  /\ Len(dimensions) = 4
            /\ encouraged <=> (anti_patterns = <<>> /\ ~low)
            /\ encouraged => suggestions = <<ENCOURAGEMENT>>
            /\ ~encouraged =>
                  {suggestions[i] : i \in 1..Len(suggestions)} = OfPatterns
            /\ (anti_patterns = <<>> /\ low) => suggestions = <<>>

\* A prompt with a role, a context, an output format, constraints and an
\* example, in which no anti-pattern is detected and no dimension scores
\* below 6.0, has got the encouragement.
EncouragementOnlyForStrongPromptsWitness ==
    /\ pc = "composed"
    /\ text = "You are a vet. The goal is clear. Respond in yaml. Always keep it formal, within limits, at most terse. Such as: hello."
    /\ anti_patterns = <<>>
    /\ \A k \in 1..4 : dimensions[k].score >= 60
    /\ suggestions = <<ENCOURAGEMENT>>

====
